---- MODULE Spec2Model ----
(***************************************************************************)
(* Power-consumption dashboard backend (src/backend): the ingestion        *)
(* pipeline (file loading, assembly, channel selection, outlier cleaning), *)
(* the process-wide data cache and the query handlers built on it.         *)
(*                                                                         *)
(* A DataFrame is a sequence of rows; a row carries its index key, the     *)
(* data columns of the file it came from and the readings of that file's   *)
(* building-A and building-B columns.  A cell of a column the row's file   *)
(* does not have is NaN, as after pd.concat.                               *)
(***************************************************************************)
EXTENDS Integers, Sequences, FiniteSets, TLC

VARIABLES
    files,            \* the data files get_data_files returns, in sorted order
    cacheFiles,       \* cache/tour_a_processed.csv and tour_b_processed.csv
    _data_cache,      \* module global _data_cache
    _power_a_cache,   \* module global _power_a_cache
    _power_b_cache,   \* module global _power_b_cache
    all_data,         \* load_all_data's local list of per-file tables (last run)
    ret,              \* outcome of the last load_all_data call
    pipelineRuns,     \* times the ingestion pipeline (or the fast path) has run
    loadCalls,        \* calls of load_all_data so far, counted up to MaxCalls
    resp,             \* response of the last query handler
    series,           \* input of clean_power_data (function specification)
    cleaned,          \* its output
    colName,          \* input of normalize_column_name (function specification)
    normalized,       \* successive results of normalize_column_name
    data_dir,         \* the directory tree get_data_files walks (function specification)
    data_files,       \* what get_data_files returned
    sample,           \* a series and a bin count for calc_distribution (function specification)
    histogram,        \* the histogram calc_distribution returned
    quartiles,        \* the quartiles calc_distribution returned
    columns,          \* a table's columns and a building for get_power_column (function specification)
    power_col,        \* what get_power_column returned
    threads,          \* the request threads inside load_all_data (concurrent specification)
    peak_input,       \* a filtered series and top_n for analyze_peaks (function specification)
    peaks,            \* the peak and off-peak hours analyze_peaks returned
    window,           \* a filtered series for calc_quality, by its numbers of readings (function specification)
    quality           \* what calc_quality and the issue tests returned

vars == <<files, cacheFiles, _data_cache, _power_a_cache, _power_b_cache,
          all_data, ret, pipelineRuns, loadCalls, resp, series, cleaned, colName, normalized,
          data_dir, data_files, sample, histogram, quartiles, columns, power_col, threads, peak_input, peaks, window, quality>>

cacheVars == <<_data_cache, _power_a_cache, _power_b_cache>>
loadVars == <<all_data, ret, pipelineRuns, loadCalls>>
dirVars == <<data_dir, data_files>>
histVars == <<sample, histogram, quartiles>>
colVars == <<columns, power_col>>
fnVars == <<series, cleaned, colName, normalized, data_dir, data_files, sample, histogram, quartiles,
           columns, power_col, threads, peak_input, peaks, window, quality>>

---------------------------------------------------------------------------
(* Bounds of the model *)

MaxFiles == 2
MaxRows == 2
MaxRuns == 2
MaxCalls == 2
MaxSeriesLen == 3
MaxZeros == 10
MaxSuffix == 3
MaxEntries == 2

(* config.py *)
MAX_POWER_CAP == 50

---------------------------------------------------------------------------
(* Values *)

\* numpy's nan: a missing reading
NaN == 0 - 999

\* pandas' NaT: the index key of a row whose date+time did not parse
NaT == [k |-> "NaT", t |-> 0]

Timestamp(t) == [k |-> "ts", t |-> t]

\* a position of the default RangeIndex of a table that never got a Datetime index
RangePos(i) == [k |-> "int", t |-> i]

NoFrame == [ikind |-> "none", cols |-> <<>>, rows |-> <<>>]

\* Python's None for a DataFrame and for a Series
NoneFrame == [some |-> FALSE, val |-> NoFrame]
NoneSeries == [some |-> FALSE, val |-> <<>>]
Some(x) == [some |-> TRUE, val |-> x]

---------------------------------------------------------------------------
(* Column names, by the substrings get_power_column tests *)

Col(tok, kwsys, avg, kvar) == [tok |-> tok, kwsys |-> kwsys, avg |-> avg, kvar |-> kvar]

ColA == Col("tour_a_(tgbt_d14)", TRUE, TRUE, FALSE)
ColAKvar == Col("tour_a_(tgbt_d14)", TRUE, TRUE, TRUE)
ColB == Col("tour_b_(tgbt_d5)", TRUE, TRUE, FALSE)
ColBMax == Col("tour_b_(tgbt_d5)", TRUE, FALSE, FALSE)
ColFastA == Col("tour_a_power", FALSE, FALSE, FALSE)
ColFastB == Col("tour_b_power", FALSE, FALSE, FALSE)

\* headers of a source file: whether it has both Date and Time, and its data columns
HeaderAB == [dt |-> TRUE, cols |-> <<ColAKvar, ColA, ColBMax, ColB>>]
HeaderB == [dt |-> TRUE, cols |-> <<ColB>>]
HeaderNoTime == [dt |-> FALSE, cols |-> <<ColA, ColB>>]
Headers == {HeaderAB, HeaderB, HeaderNoTime}

---------------------------------------------------------------------------
(* Source rows *)

Row(date, time, a, b) == [date |-> date, time |-> time, a |-> a, b |-> b]

RowDay2 == Row(2, "00:00:00", 10, 20)
RowDay1Noon == Row(1, "12:00:00", 60, 20)
RowEndOfDay == Row(1, "24:00:00", 10, 20)
RowBadTime == Row(1, "bad", 10, 20)
RowPool == {RowDay2, RowDay1Noon, RowEndOfDay, RowBadTime}

\* a file whose load raises inside load_single_file's try block
FailingFile == [ok |-> FALSE, dt |-> TRUE, cols |-> <<>>, rows |-> <<>>]

File(h, rows) == [ok |-> TRUE, dt |-> h.dt, cols |-> h.cols, rows |-> rows]

FilesOfSize(n) ==
    (IF n = 0 THEN {FailingFile} ELSE {})
        \cup {File(h, rs) : h \in Headers, rs \in [1..n -> RowPool]}

RECURSIVE DirsOf(_, _)
\* the directories of exactly k files holding at most budget rows in all
DirsOf(k, budget) ==
    IF k = 0 THEN {<<>>}
    ELSE UNION {{<<f>> \o d : f \in FilesOfSize(n), d \in DirsOf(k - 1, budget - n)} :
                    n \in 0..budget}

IngestDirs == UNION {DirsOf(k, MaxRows) : k \in 0..MaxFiles}

\* the directories the query handlers are exercised on
FilePool ==
    {FailingFile,
     File(HeaderAB, <<>>),
     File(HeaderAB, <<RowDay2, RowDay1Noon>>),
     File(HeaderAB, <<RowDay1Noon, RowEndOfDay, RowBadTime>>),
     File(HeaderB, <<RowDay1Noon, RowDay2>>),
     File(HeaderNoTime, <<RowDay2>>)}

RECURSIVE SeqsUpTo(_, _)
SeqsUpTo(S, n) ==
    IF n = 0 THEN {<<>>}
    ELSE SeqsUpTo(S, n - 1) \cup {s \o <<x>> : s \in {q \in SeqsUpTo(S, n - 1) : Len(q) = n - 1}, x \in S}

QueryDirs == SeqsUpTo(FilePool, MaxFiles)

\* the processed-series files of the fast path: absent, or one series per building
\* the first field of a line of a processed file: the text of a timestamp
\* (of the hour n) or the digits of an integer n
IndexText(key) == [form |-> IF key.k = "ts" THEN "datetime" ELSE "digits", n |-> key.t]

\* the lines of a processed file: the index field and the power field
Line(key, v) == [key |-> IndexText(key), v |-> v]

NoCacheFiles == [present |-> FALSE, a |-> <<>>, b |-> <<>>]
CacheFilesAB ==
    [present |-> TRUE,
     a |-> <<Line(Timestamp(36), 10), Line(Timestamp(48), 10)>>,
     b |-> <<Line(Timestamp(36), 20), Line(Timestamp(72), NaN)>>]

---------------------------------------------------------------------------
(* get_data_files.  A name is the sequence of its characters' code points,  *)
(* which is the order sorted() compares paths by                             *)

DotCsv == <<46, 99, 115, 118>>
DotXlsx == <<46, 120, 108, 115, 120>>
Slash == <<47>>

\* "a.csv", "b.xlsx", "a.txt", "d.csv": the names of the files of the pool
FileNames ==
    {<<97>> \o DotCsv, <<98>> \o DotXlsx, <<97, 46, 116, 120, 116>>, <<100>> \o DotCsv}

\* "r", the root; "d", a directory in it; "e.csv", a directory in "d"
RootName == <<114>>
SubName == <<100>>
SubSubName == <<101>> \o DotCsv

\* a directory: whether it exists, its files and the directories in it
Directory(exists, name, entries, dirs) ==
    [exists |-> exists, name |-> name, files |-> entries, dirs |-> dirs]

Listings == {S \in SUBSET FileNames : Cardinality(S) <= MaxEntries}

\* the trees of the pool: a root that does not exist, or one with files and
\* possibly "d", with files and possibly "e.csv" and its files
Trees ==
    {Directory(FALSE, RootName, {}, <<>>)}
        \cup {Directory(TRUE, RootName, top, <<>>) : top \in Listings}
        \cup {Directory(TRUE, RootName, top, <<Directory(TRUE, SubName, sub, <<>>)>>) :
                  top \in Listings, sub \in Listings}
        \cup {Directory(TRUE, RootName, top,
                        <<Directory(TRUE, SubName, sub,
                                    <<Directory(TRUE, SubSubName, subsub, <<>>)>>)>>) :
                  top \in Listings, sub \in Listings, subsub \in Listings}

\* file.endswith(suffix)
endswith(name, suffix) ==
    /\ Len(name) >= Len(suffix)
    /\ SubSeq(name, Len(name) - Len(suffix) + 1, Len(name)) = suffix

\* os.path.join(root, file)
join(root, file) == root \o Slash \o file

RECURSIVE Orders(_)
\* the orders in which a directory may list its entries
Orders(S) ==
    IF S = {} THEN {<<>>}
    ELSE UNION {{<<x>> \o o : o \in Orders(S \ {x})} : x \in S}

RECURSIVE Less(_, _)
\* str.__lt__: the order of the first differing code point, a prefix first
Less(p, q) ==
    IF q = <<>> THEN FALSE
    ELSE IF p = <<>> THEN TRUE
    ELSE IF Head(p) # Head(q) THEN Head(p) < Head(q)
    ELSE Less(Tail(p), Tail(q))

RECURSIVE Insert(_, _)
Insert(p, rest) ==
    IF rest = <<>> THEN <<p>>
    ELSE IF Less(p, Head(rest)) THEN <<p>> \o rest
    ELSE <<Head(rest)>> \o Insert(p, Tail(rest))

\* the list as the walk found it
unsorted(paths) == paths

RECURSIVE sorted(_)
\* sorted(data_files)
sorted(paths) == IF paths = <<>> THEN <<>> ELSE Insert(Head(paths), sorted(Tail(paths)))

IsDataFile(file) == endswith(file, DotCsv) \/ endswith(file, DotXlsx)

RECURSIVE walk(_, _)
\* for root, dirs, files in os.walk(data_dir): the data_files lists that the
\* loop may build below the directory at path root, for every listing order;
\* a root that does not exist is walked without a step
walk(root, dir) ==
    IF ~dir.exists THEN {<<>>}
    ELSE LET here == {SelectSeq(o, IsDataFile) : o \in Orders(dir.files)}
             below == IF dir.dirs = <<>> THEN {<<>>}
                      ELSE walk(join(root, dir.dirs[1].name), dir.dirs[1])
         IN {[i \in 1..Len(h) |-> join(root, h[i])] \o b : h \in here, b \in below}

\* the lists get_data_files may return for a tree
get_data_files(dir) == {sorted(found) : found \in walk(dir.name, dir)}

NoDirectory ==
    /\ data_dir = Directory(FALSE, RootName, {}, <<>>)
    /\ data_files = NoneSeries

---------------------------------------------------------------------------
(* load_single_file *)

\* '%d-%m-%Y %H:%M:%S': the hour a Time field parses to, -1 when it does not
\* parse ("24:00:00" is out of %H's range 00..23)
HourOf(time) ==
    CASE time = "00:00:00" -> 0
      [] time = "12:00:00" -> 12
      [] OTHER -> 0 - 1

\* pd.to_datetime(date + ' ' + time, format=..., errors='coerce'), in hours
to_datetime(date, time) ==
    IF HourOf(time) >= 0 THEN Timestamp(date * 24 + HourOf(time)) ELSE NaT

NotEndOfDay(r) == r.time # "24:00:00"

\* no mask: the end-of-day rows stay in the table
MaskNothing(rows) == rows

\* mask = ~(df['Time'] == '24:00:00'); df = df[mask]
MaskEndOfDay(rows) == SelectSeq(rows, NotEndOfDay)

\* a table: the kind of its index, its data columns and its rows
Table(ikind, cols, rows) == [ikind |-> ikind, cols |-> cols, rows |-> rows]

load_single_file(f) ==
    IF ~f.ok THEN NoneFrame
    ELSE IF f.dt
    THEN LET kept == MaskEndOfDay(f.rows)
         IN Some(Table("datetime", f.cols,
                       [i \in 1..Len(kept) |->
                           [key |-> to_datetime(kept[i].date, kept[i].time),
                            cols |-> f.cols, a |-> kept[i].a, b |-> kept[i].b]]))
    ELSE Some(Table("range", f.cols,
                    [i \in 1..Len(f.rows) |->
                        [key |-> RangePos(i - 1),
                         cols |-> f.cols, a |-> f.rows[i].a, b |-> f.rows[i].b]]))

---------------------------------------------------------------------------
(* get_power_column *)

\* tour.upper()
upper(tour) == IF tour = "a" THEN "A" ELSE IF tour = "b" THEN "B" ELSE tour

\* prefix.lower() for the one prefix of the building: every tour but 'A' is B
Prefix(tour) == IF upper(tour) = "A" THEN "tour_a_(tgbt_d14)" ELSE "tour_b_(tgbt_d5)"

\* the test without its last conjunct: a reactive-power column passes
ColumnMatchesKvarToo(c, tour) == c.tok = Prefix(tour) /\ c.kwsys /\ c.avg

ColumnMatches(c, tour) == c.tok = Prefix(tour) /\ c.kwsys /\ c.avg /\ ~c.kvar

\* the position in cols of the first matching column, 0 for None
get_power_column(cols, tour) ==
    IF \E i \in 1..Len(cols) : ColumnMatches(cols[i], tour)
    THEN CHOOSE i \in 1..Len(cols) :
            /\ ColumnMatches(cols[i], tour)
            /\ \A j \in 1..(i - 1) : ~ColumnMatches(cols[j], tour)
    ELSE 0

\* df[col] for one row: NaN where the row's file has no such column
Cell(row, c) ==
    IF \E i \in 1..Len(row.cols) : row.cols[i] = c
    THEN (IF c.tok = Prefix("B") THEN row.b ELSE row.a)
    ELSE NaN

Column(df, c) == [i \in 1..Len(df.rows) |-> Cell(df.rows[i], c)]

---------------------------------------------------------------------------
(* clean_power_data *)

RECURSIVE SumSeq(_)
SumSeq(s) == IF s = <<>> THEN 0 ELSE Head(s) + SumSeq(Tail(s))

IsNumber(x) == x # NaN

\* power <= min(mean + 3 * std, MAX_POWER_CAP) for one value, over the integers:
\* with n values of sum S, mean = S/n and std^2 = sum((n*x_i - S)^2) / (n^2 * (n-1)).
\* With one value std is nan, mean + 3*std is nan, min(nan, 50) is nan and the
\* comparison is False; with none the mean is nan already.
\* the limit mean + 3 * std alone, without the cap
WithinLimitUncapped(x, vals) ==
    LET n == Len(vals)
        S == SumSeq(vals)
        dev2 == SumSeq([i \in 1..n |-> (n * vals[i] - S) * (n * vals[i] - S)])
    IN /\ IsNumber(x)
       /\ n >= 2
       /\ \/ n * x - S <= 0
          \/ (n * x - S) * (n * x - S) * (n - 1) <= 9 * dev2

WithinLimit(x, vals) ==
    LET n == Len(vals)
        S == SumSeq(vals)
        dev2 == SumSeq([i \in 1..n |-> (n * vals[i] - S) * (n * vals[i] - S)])
    IN /\ IsNumber(x)
       /\ n >= 2
       /\ x <= MAX_POWER_CAP
       /\ \/ n * x - S <= 0
          \/ (n * x - S) * (n * x - S) * (n - 1) <= 9 * dev2

clean_power_data(values) ==
    LET vals == SelectSeq(values, IsNumber)
    IN [i \in 1..Len(values) |-> IF WithinLimit(values[i], vals) THEN values[i] ELSE NaN]

\* a Series: the frame's index with one value per row
SeriesOf(df, values) == [i \in 1..Len(df.rows) |-> [key |-> df.rows[i].key, v |-> values[i]]]

---------------------------------------------------------------------------
(* load_all_data *)

RECURSIVE LoadLoopAbort(_)
\* a loop that a failing file ends: the files after it are not loaded
LoadLoopAbort(fs) ==
    IF fs = <<>> THEN <<>>
    ELSE LET df == load_single_file(Head(fs))
         IN IF df.some THEN <<df.val>> \o LoadLoopAbort(Tail(fs)) ELSE <<>>

RECURSIVE LoadLoop(_)
\* for file_path in data_files: df = load_single_file(...); if df is not None: append
LoadLoop(fs) ==
    IF fs = <<>> THEN <<>>
    ELSE LET df == load_single_file(Head(fs))
         IN (IF df.some THEN <<df.val>> ELSE <<>>) \o LoadLoop(Tail(fs))

RECURSIVE ConcatRows(_)
ConcatRows(tables) ==
    IF tables = <<>> THEN <<>> ELSE Head(tables).rows \o ConcatRows(Tail(tables))

RECURSIVE UnionCols(_, _)
\* the columns of the concatenated frame: each name once, in order of first appearance
UnionCols(acc, cs) ==
    IF cs = <<>> THEN acc
    ELSE UnionCols(IF \E i \in 1..Len(acc) : acc[i] = Head(cs) THEN acc ELSE Append(acc, Head(cs)),
                   Tail(cs))

RECURSIVE ConcatCols(_)
ConcatCols(tables) ==
    IF tables = <<>> THEN <<>> ELSE Head(tables).cols \o ConcatCols(Tail(tables))

\* the index of the concatenation keeps its kind when every table has that kind;
\* over tables of both kinds it is an object index, or, in the pandas versions
\* that leave empty indexes out of the result type, of the kind of a table with rows
ConcatKinds(tables) ==
    IF \A i \in 1..Len(tables) : tables[i].ikind = tables[1].ikind
    THEN {tables[1].ikind}
    ELSE {"object"} \cup {tables[i].ikind : i \in {j \in 1..Len(tables) : tables[j].rows # <<>>}}

SameColumns(tables) == \A i \in 1..Len(tables) : tables[i].cols = tables[1].cols

HasDuplicate(cols) == \E i, j \in 1..Len(cols) : i # j /\ cols[i] = cols[j]

\* tables of differing columns are reindexed on the union of their columns, which
\* a table with a repeated column name does not allow (InvalidIndexError)
ConcatRaises(tables) ==
    ~SameColumns(tables) /\ \E i \in 1..Len(tables) : HasDuplicate(tables[i].cols)

\* pd.concat(all_data, ignore_index=False): tables of the same columns keep them
\* as they are, a repeated name included
Concat(tables, ikind) ==
    Table(ikind,
          IF SameColumns(tables) THEN tables[1].cols ELSE UnionCols(<<>>, ConcatCols(tables)),
          ConcatRows(tables))

KeyNotNa(r) == r.key.k # "NaT"

\* the rows of the first occurrence of each index value, as drop_duplicates keeps them
FirstOfEachKey(rows) ==
    SelectSeq([i \in 1..Len(rows) |->
                  IF \E j \in 1..(i - 1) : rows[j].key = rows[i].key
                  THEN [rows[i] EXCEPT !.key = NaT] ELSE rows[i]], KeyNotNa)

\* the rows with a timestamp, one for each timestamp
DropNaTAndDuplicates(df) == [df EXCEPT !.rows = FirstOfEachKey(SelectSeq(df.rows, KeyNotNa))]

\* combined_df[combined_df.index.notna()]
DropNaT(df) == [df EXCEPT !.rows = SelectSeq(df.rows, KeyNotNa)]

\* sort_index compares the keys: a Timestamp and an int do not compare (TypeError)
Comparable(rows) == \A i, j \in 1..Len(rows) : rows[i].key.k = rows[j].key.k

IsSorted(rows) == \A i \in 1..(Len(rows) - 1) : rows[i].key.t <= rows[i + 1].key.t

RemoveAt(s, i) == SubSeq(s, 1, i - 1) \o SubSeq(s, i + 1, Len(s))

RECURSIVE SortedOrders(_)
\* every ordering of the rows by key: the default sort is not stable, so rows with
\* equal keys may come out in any order
SortedOrders(rows) ==
    IF rows = <<>> THEN {<<>>}
    ELSE UNION {{<<rows[i]>> \o o : o \in SortedOrders(RemoveAt(rows, i))} :
                    i \in {m \in 1..Len(rows) : \A j \in 1..Len(rows) : rows[m].key.t <= rows[j].key.t}}

\* no sort: the rows stay in concatenation order
sort_index_skipped(rows) == {rows}

\* combined_df.sort_index(): an index already in order is returned as it is
sort_index(rows) == IF IsSorted(rows) THEN {rows} ELSE SortedOrders(rows)

\* the cleaned series of one building, None when no column matches
PowerCache(df, tour) ==
    LET p == get_power_column(df.cols, tour)
    IN IF p = 0 THEN NoneSeries
       ELSE Some(SeriesOf(df, clean_power_data(Column(df, df.cols[p]))))

\* combined_df[power_col] is a DataFrame, not a Series, when the name is that of
\* more than one column, and pd.to_numeric in clean_power_data raises TypeError
CleanRaises(df, tour) ==
    LET p == get_power_column(df.cols, tour)
    IN p # 0 /\ \E i \in 1..Len(df.cols) : i # p /\ df.cols[i] = df.cols[p]

Returned(df, pa, pb) == [outcome |-> "returned", df |-> df, pa |-> pa, pb |-> pb]
Raised(what) == [outcome |-> what, df |-> NoneFrame, pa |-> NoneSeries, pb |-> NoneSeries]
NotCalled == [outcome |-> "not called", df |-> NoneFrame, pa |-> NoneSeries, pb |-> NoneSeries]

\* the fast path: both processed files exist
RECURSIVE KeysOf(_)
KeysOf(s) == IF s = <<>> THEN <<>> ELSE <<Head(s).key>> \o KeysOf(Tail(s))

HasKey(s, key) == \E i \in 1..Len(s) : s[i].key = key

ValueAt(s, key) == IF HasKey(s, key) THEN s[CHOOSE i \in 1..Len(s) : s[i].key = key].v ELSE NaN

RECURSIVE SortedKeys(_)
\* the keys of a set in increasing order
SortedKeys(K) ==
    IF K = {} THEN <<>>
    ELSE LET m == CHOOSE k \in K : \A j \in K : k.t <= j.t
         IN <<m>> \o SortedKeys(K \ {m})

\* pd.read_csv(file, index_col=0, parse_dates=True)['power']: the index is a
\* DatetimeIndex when its fields parse as dates, stays one of integers when
\* they are digits, and is an empty Index of dtype object when the file has
\* no line, there being nothing to parse
read_csv(lines) ==
    [ikind |-> IF lines = <<>> THEN "object"
               ELSE IF \A i \in 1..Len(lines) : lines[i].key.form = "datetime" THEN "datetime"
               ELSE IF \A i \in 1..Len(lines) : lines[i].key.form = "digits" THEN "range"
               ELSE "object",
     rows |-> [i \in 1..Len(lines) |->
                  [key |-> IF lines[i].key.form = "datetime" THEN Timestamp(lines[i].key.n)
                           ELSE RangePos(lines[i].key.n),
                   v |-> lines[i].v]]]

\* pd.concat([a, b], axis=1): the index of a when b has the same index, else
\* the union of the two indexes, sorted
ConcatAxis1(sa, sb) ==
    LET a == sa.rows
        b == sb.rows
        keys == IF KeysOf(a) = KeysOf(b) THEN KeysOf(a)
                ELSE SortedKeys({a[i].key : i \in 1..Len(a)} \cup {b[i].key : i \in 1..Len(b)})
    IN Table(IF sa.ikind = sb.ikind THEN sa.ikind ELSE "object", <<ColFastA, ColFastB>>,
             [i \in 1..Len(keys) |->
                 [key |-> keys[i], cols |-> <<ColFastA, ColFastB>>,
                  a |-> ValueAt(a, keys[i]), b |-> ValueAt(b, keys[i])]])

\* the module globals together with what a call leaves behind
Outcome(dc, pa, pb, ad, r, runs) ==
    [dc |-> dc, pa |-> pa, pb |-> pb, all_data |-> ad, ret |-> r, runs |-> runs]

\* lines 131-143: _data_cache is assigned, then the columns are looked up and
\* each series found is cleaned and assigned; a raise in the cleaning of A
\* leaves both series as they were, one in the cleaning of B leaves A assigned
AssignCaches(df, ca, cb, loaded, runs) ==
    IF CleanRaises(df, "A")
    THEN Outcome(Some(df), ca, cb, loaded, Raised("TypeError in clean_power_data"), runs)
    ELSE LET pa == PowerCache(df, "A")
         IN IF CleanRaises(df, "B")
            THEN Outcome(Some(df), pa, cb, loaded, Raised("TypeError in clean_power_data"), runs)
            ELSE LET pb == PowerCache(df, "B")
                 IN Outcome(Some(df), pa, pb, loaded, Returned(Some(df), pa, pb), runs)

\* the full pipeline over the files fs, the globals dc, ca, cb being unset
Pipeline(fs, dc, ca, cb, runs) ==
    LET loaded == LoadLoop(fs)
    IN IF loaded = <<>>
       THEN {Outcome(dc, ca, cb, loaded, Returned(NoneFrame, NoneSeries, NoneSeries), runs)}
       ELSE IF ConcatRaises(loaded)
       THEN {Outcome(dc, ca, cb, loaded, Raised("InvalidIndexError"), runs)}
       ELSE UNION {LET combined == DropNaT(Concat(loaded, ikind))
                   IN IF ~Comparable(combined.rows)
                      THEN {Outcome(dc, ca, cb, loaded, Raised("TypeError"), runs)}
                      ELSE {LET df == [combined EXCEPT !.rows = ordered]
                            IN AssignCaches(df, ca, cb, loaded, runs) :
                               ordered \in sort_index(combined.rows)} :
                   ikind \in ConcatKinds(loaded)}

\* the pipeline over the discovered files
RunPipeline ==
    Pipeline(files, _data_cache, _power_a_cache, _power_b_cache, pipelineRuns + 1)

\* the fast path: the two processed series are read back and joined
RunFastPath ==
    LET pa == Some(read_csv(cacheFiles.a).rows)
        pb == Some(read_csv(cacheFiles.b).rows)
        df == Some(ConcatAxis1(read_csv(cacheFiles.a), read_csv(cacheFiles.b)))
    IN {Outcome(df, pa, pb, all_data, Returned(df, pa, pb), pipelineRuns + 1)}

\* load_all_data without its first test: every call runs the pipeline again
load_all_data_uncached == IF cacheFiles.present THEN RunFastPath ELSE RunPipeline

\* one call of data_loader.load_all_data: the globals and the return value it
\* may leave
load_all_data ==
    IF _data_cache.some
    THEN {Outcome(_data_cache, _power_a_cache, _power_b_cache, all_data,
                  Returned(_data_cache, _power_a_cache, _power_b_cache), pipelineRuns)}
    ELSE IF cacheFiles.present THEN RunFastPath ELSE RunPipeline

Commit(o) ==
    /\ _data_cache' = o.dc
    /\ _power_a_cache' = o.pa
    /\ _power_b_cache' = o.pb
    /\ all_data' = o.all_data
    /\ ret' = o.ret
    /\ pipelineRuns' = o.runs
    /\ loadCalls' = IF loadCalls < MaxCalls THEN loadCalls + 1 ELSE loadCalls

\* the pipeline may run again only while the model's bound allows it
MayLoad == _data_cache.some \/ pipelineRuns < MaxRuns

\* a call of data_loader.load_all_data
LoadAllData ==
    /\ MayLoad
    /\ \E o \in load_all_data : Commit(o)
    /\ UNCHANGED <<files, cacheFiles, resp, fnVars>>

\* app.py has its own load_all_data over its own globals: the same function
\* without the fast path (the processed files are never read)
app_load_all_data ==
    IF _data_cache.some
    THEN {Outcome(_data_cache, _power_a_cache, _power_b_cache, all_data,
                  Returned(_data_cache, _power_a_cache, _power_b_cache), pipelineRuns)}
    ELSE RunPipeline

\* app.py run as a script: load_all_data() before the server starts
Preload ==
    /\ MayLoad
    /\ \E o \in app_load_all_data : Commit(o)
    /\ UNCHANGED <<files, cacheFiles, resp, fnVars>>

---------------------------------------------------------------------------
(* The calendar of the index: date 1 is Sunday 2024-03-31, date 2 is Monday   *)
(* 2024-04-01; a timestamp is date * 24 + hour                               *)

DateOf(t) == t \div 24
HourOfDay(t) == t % 24

\* DatetimeIndex.dayofweek: Monday is 0, Sunday is 6
DayOfWeek(t) == (DateOf(t) + 5) % 7

\* the month of 2024 a timestamp lies in, of March and April
MonthOf(t) == IF DateOf(t) <= 1 THEN 3 ELSE 4

\* every timestamp of the calendar is of 2024
YearOf(t) == 2024

---------------------------------------------------------------------------
(* The query arguments: 0 for an absent month, date or year, -1 for an       *)
(* absent day of week                                                        *)

Args(month, start_date, end_date, day_of_week, year, aggregation, bins) ==
    [month |-> month, start_date |-> start_date, end_date |-> end_date,
     day_of_week |-> day_of_week, year |-> year, aggregation |-> aggregation, bins |-> bins]

\* a request without a query string: the handlers' defaults
NoArgs == Args(0, 0, 0, 0 - 1, 0, "daily", 30)

\* the handlers that read start_date and end_date
DateRangeOps == {"summary", "timeseries", "distribution", "peak-analysis", "data-quality",
                 "comparison"}

\* the mask a handler builds from the arguments it reads, for one index key:
\* pd.to_datetime('YYYY-MM-DD') is midnight at the start of that date
Mask(op, key, args) ==
    /\ (op # "monthly" /\ args.month # 0) => MonthOf(key.t) = args.month
    /\ (op \in DateRangeOps /\ args.start_date # 0) => key.t >= args.start_date * 24
    /\ (op \in DateRangeOps /\ args.end_date # 0) => key.t <= args.end_date * 24
    /\ (op = "hourly" /\ args.day_of_week >= 0) => DayOfWeek(key.t) = args.day_of_week
    /\ (op = "monthly" /\ args.year # 0) => YearOf(key.t) = args.year

\* power[mask]
Masked(op, s, args) ==
    LET Kept(e) == Mask(op, e.key, args)
    IN SelectSeq(s, Kept)

HasValue(e) == e.v # NaN

\* series.dropna()
dropna(s) == SelectSeq(s, HasValue)

Values(s) == [i \in 1..Len(s) |-> s[i].v]

\* power.max() and power.min() of a series with a value
MaxOf(vs) == CHOOSE x \in {vs[i] : i \in 1..Len(vs)} : \A j \in 1..Len(vs) : x >= vs[j]

MinOf(vs) == CHOOSE x \in {vs[i] : i \in 1..Len(vs)} : \A j \in 1..Len(vs) : x <= vs[j]

\* round(num / den) to the nearest integer, a tie going to the even one, den > 0
Round(num, den) ==
    LET q == num \div den
        r == num % den
    IN IF 2 * r < den THEN q
       ELSE IF 2 * r > den THEN q + 1
       ELSE IF q % 2 = 0 THEN q ELSE q + 1

\* a quotient of two numbers rounded to an integer: NaN for what a division by
\* zero gives (nan or inf of a float division, nothing of an integer one)
Quotient(num, den) == IF den = 0 THEN NaN ELSE Round(num, den)

\* round(mean, 2) of a sequence of values in hundredths, 0 for an empty one
\* (pd.isna of the mean of nothing)
MeanOrZero(vs) == IF vs = <<>> THEN 0 ELSE Round(100 * SumSeq(vs), Len(vs))

---------------------------------------------------------------------------
(* get_summary: calc_metrics.  Powers and energies are in hundredths of a    *)
(* unit where the code rounds to 2 places, in thousandths for loadFactor,    *)
(* in tenths for dataCoverage and estimatedDailyKwh, in units for the rest   *)

IsWeekday(e) == DayOfWeek(e.key.t) < 5
IsWeekend(e) == DayOfWeek(e.key.t) >= 5
IsPositive(x) == x > 0

\* power: a filtered series without missing readings; kept: len(mask[mask])
calc_metrics(power, kept) ==
    IF Len(power) = 0
    THEN [avgPower |-> 0, maxPower |-> 0, minPower |-> 0, weekdayAvg |-> 0, weekendAvg |-> 0,
          dataCoverage |-> 0, loadFactor |-> 0, peakToAvgRatio |-> 0, totalEnergyKwh |-> 0,
          estimatedDailyKwh |-> 0, estimatedMonthlyKwh |-> 0]
    ELSE LET vs == Values(power)
             n == Len(vs)
             S == SumSeq(vs)
             max_val == MaxOf(vs)
             pos == SelectSeq(vs, IsPositive)
         IN [avgPower |-> Round(100 * S, n),
             maxPower |-> 100 * max_val,
             minPower |-> IF pos # <<>> THEN 100 * MinOf(pos) ELSE 0,
             weekdayAvg |-> MeanOrZero(Values(SelectSeq(power, IsWeekday))),
             weekendAvg |-> MeanOrZero(Values(SelectSeq(power, IsWeekend))),
             dataCoverage |-> IF kept > 0 THEN Quotient(1000 * n, kept) ELSE 0,
             loadFactor |-> IF max_val > 0 THEN Quotient(1000 * S, n * max_val) ELSE 0,
             peakToAvgRatio |-> IF S > 0 THEN Quotient(100 * max_val * n, S) ELSE 0,
             totalEnergyKwh |-> Round(S, 4),
             estimatedDailyKwh |-> Round(240 * S, n),
             estimatedMonthlyKwh |-> Round(720 * S, n)]

summary(df, pa, pb, args) ==
    LET kept == Len(Masked("summary", pa, args))
    IN [tourA |-> calc_metrics(dropna(Masked("summary", pa, args)), kept),
        tourB |-> calc_metrics(dropna(Masked("summary", pb, args)), kept)]

---------------------------------------------------------------------------
(* get_data_quality: calc_quality.  completeness and validity in hundredths  *)
(* of a percent                                                              *)

IsZero(e) == e.v = 0
IsAboveZero(e) == e.v # NaN /\ e.v > 0

\* calc_quality without its tests of total_points
calc_quality_unguarded(power) ==
    LET total_points == Len(power)
        non_null == Len(SelectSeq(power, HasValue))
        zero_count == Len(SelectSeq(power, IsZero))
        non_zero_count == Len(SelectSeq(power, IsAboveZero))
    IN [totalPoints |-> total_points,
        validPoints |-> non_null,
        missingPoints |-> total_points - non_null,
        zeroPoints |-> zero_count,
        nonZeroPoints |-> non_zero_count,
        completeness |-> Quotient(10000 * non_null, total_points),
        validity |-> Quotient(10000 * non_zero_count, total_points),
        hasValidReadings |-> non_zero_count > 0]

\* the dictionary calc_quality returns, from the counts it takes of the series
quality_report(total_points, non_null, null_count, zero_count, non_zero_count) ==
    [totalPoints |-> total_points,
     validPoints |-> non_null,
     missingPoints |-> null_count,
     zeroPoints |-> zero_count,
     nonZeroPoints |-> non_zero_count,
     completeness |-> IF total_points > 0 THEN Quotient(10000 * non_null, total_points) ELSE 0,
     validity |-> IF total_points > 0 THEN Quotient(10000 * non_zero_count, total_points) ELSE 0,
     hasValidReadings |-> non_zero_count > 0]

calc_quality(power) ==
    quality_report(Len(power),
                   Len(SelectSeq(power, HasValue)),
                   Len(power) - Len(SelectSeq(power, HasValue)),
                   Len(SelectSeq(power, IsZero)),
                   Len(SelectSeq(power, IsAboveZero)))

\* the issue tests on the exact ratios in place of the rounded percentages
IssuesUnrounded(q) ==
    (IF 2 * q.validPoints < q.totalPoints \/ q.totalPoints = 0
     THEN {"Low data completeness (< 50%)"} ELSE {})
        \cup (IF 2 * q.nonZeroPoints < q.totalPoints \/ q.totalPoints = 0
              THEN {"Many zero readings (> 50%)"} ELSE {})

\* the issues added after calc_quality
Issues(q) ==
    (IF q.completeness < 5000 THEN {"Low data completeness (< 50%)"} ELSE {})
        \cup (IF q.validity < 5000 THEN {"Many zero readings (> 50%)"} ELSE {})

data_quality(df, pa, pb, args) ==
    LET qa == calc_quality(Masked("data-quality", pa, args))
        qb == calc_quality(Masked("data-quality", pb, args))
    IN [tourA |-> qa, tourB |-> qb, issuesA |-> Issues(qa), issuesB |-> Issues(qb)]

---------------------------------------------------------------------------
(* get_hourly_data and get_weekly_data: values in hundredths *)

\* the bucket of a timestamp under a resampling frequency; the weeks end on
\* Sunday, date 1 ending week 0
BucketOf(freq, t) ==
    CASE freq = "hourly" -> t
      [] freq = "weekly" -> (DateOf(t) + 5) \div 7
      [] freq = "monthly" -> MonthOf(t)
      [] OTHER -> DateOf(t)

\* the group of a timestamp: its hour of the day (index.hour), its day of the
\* week (index.dayofweek), or its bucket under a resampling frequency
GroupOf(by, t) ==
    CASE by = "hour" -> HourOfDay(t)
      [] by = "dayofweek" -> DayOfWeek(t)
      [] OTHER -> BucketOf(by, t)

\* the rounded mean of the readings of a series that fall in one group, 0 when
\* the group is not there or holds only missing readings:
\* grouped.get(g, 0), then 0 if pd.isna(val) else round(val, 2)
GroupValue(s, by, g) ==
    LET Member(e) == GroupOf(by, e.key.t) = g /\ HasValue(e)
    IN MeanOrZero(Values(SelectSeq(s, Member)))

\* a result that lists only the hours the grouped series has
hourly_observed(df, pa, pb, args) ==
    LET fa == Masked("hourly", pa, args)
        hours == SortedKeys({[k |-> "h", t |-> HourOfDay(fa[i].key.t)] : i \in 1..Len(fa)})
    IN [i \in 1..Len(hours) |->
           LET a_val == GroupValue(fa, "hour", hours[i].t)
               b_val == GroupValue(Masked("hourly", pb, args), "hour", hours[i].t)
           IN [hour |-> hours[i].t, tourA |-> a_val, tourB |-> b_val, difference |-> b_val - a_val]]

\* for hour in range(24)
hourly(df, pa, pb, args) ==
    LET filtered_a == dropna(Masked("hourly", pa, args))
        filtered_b == dropna(Masked("hourly", pb, args))
    IN [i \in 1..24 |->
           LET a_val == GroupValue(filtered_a, "hour", i - 1)
               b_val == GroupValue(filtered_b, "hour", i - 1)
           IN [hour |-> i - 1, tourA |-> a_val, tourB |-> b_val, difference |-> b_val - a_val]]

days == <<"Monday", "Tuesday", "Wednesday", "Thursday", "Friday", "Saturday", "Sunday">>

\* for i, day in enumerate(days)
weekly(df, pa, pb, args) ==
    LET filtered_a == dropna(Masked("weekly", pa, args))
        filtered_b == dropna(Masked("weekly", pb, args))
    IN [i \in 1..Len(days) |->
           [day |-> days[i], dayIndex |-> i - 1,
            tourA |-> GroupValue(filtered_a, "dayofweek", i - 1),
            tourB |-> GroupValue(filtered_b, "dayofweek", i - 1)]]

---------------------------------------------------------------------------
(* get_monthly_data and get_timeseries_data: resample(freq).mean().  A bucket *)
(* is named by its ordinal: the hour, the date, the week or the month        *)

\* the index of series.resample(freq).mean(): every bucket from that of the
\* first row to that of the last, rows of missing readings included; a series
\* without rows gives none
ResampleIndex(s, freq) ==
    IF s = <<>> THEN {} ELSE BucketOf(freq, s[1].key.t)..BucketOf(freq, s[Len(s)].key.t)

RECURSIVE SortedInts(_)
\* sorted(...)
SortedInts(S) ==
    IF S = {} THEN <<>>
    ELSE LET m == CHOOSE x \in S : \A y \in S : x <= y
         IN <<m>> \o SortedInts(S \ {m})

\* only the buckets in which both series have a reading
all_dates_common(fa, fb, freq) ==
    SortedInts({BucketOf(freq, fa[i].key.t) : i \in {j \in 1..Len(fa) : HasValue(fa[j])}}
                   \cap {BucketOf(freq, fb[i].key.t) : i \in {j \in 1..Len(fb) : HasValue(fb[j])}})

\* sorted(resampled_a.index.union(resampled_b.index))
all_dates(fa, fb, freq) == SortedInts(ResampleIndex(fa, freq) \cup ResampleIndex(fb, freq))

\* resampled.get(date, 0), then 0 if pd.isna(val) else round(val, 2)
BucketValue(s, freq, bucket) == GroupValue(s, freq, bucket)

\* resample('Me') is the month-end frequency where the alias is accepted
monthly(df, pa, pb, args) ==
    LET fa == Masked("monthly", pa, args)
        fb == Masked("monthly", pb, args)
        all_months == all_dates(fa, fb, "monthly")
    IN [i \in 1..Len(all_months) |->
           LET a_val == BucketValue(fa, "monthly", all_months[i])
               b_val == BucketValue(fb, "monthly", all_months[i])
           IN [month |-> all_months[i], tourA |-> a_val, tourB |-> b_val,
               tourAEnergy |-> Round(720 * a_val, 100),
               tourBEnergy |-> Round(720 * b_val, 100)]]

\* the aggregations of get_timeseries_data: any other value is daily
Frequency(aggregation) ==
    IF aggregation \in {"hourly", "weekly", "monthly"} THEN aggregation ELSE "daily"

timeseries(df, pa, pb, args) ==
    LET fa == Masked("timeseries", pa, args)
        fb == Masked("timeseries", pb, args)
        freq == Frequency(args.aggregation)
        dates == all_dates(fa, fb, freq)
    IN [i \in 1..Len(dates) |->
           [date |-> dates[i],
            tourA |-> BucketValue(fa, freq, dates[i]),
            tourB |-> BucketValue(fb, freq, dates[i])]]

---------------------------------------------------------------------------
(* get_distribution_data: calc_distribution's histogram.  Edges and centers *)
(* in hundredths, frequency in hundredths of a percent                       *)

\* np.histogram's range, in halves: the minimum and the maximum of the values,
\* widened by 0.5 on each side when they are equal
outer_edges(power) ==
    LET lo == MinOf(power)
        hi == MaxOf(power)
    IN IF lo = hi THEN [first |-> 2 * lo - 1, last |-> 2 * hi + 1]
       ELSE [first |-> 2 * lo, last |-> 2 * hi]

\* bin_edges[i] of np.linspace(first, last, bins + 1), times 2 * bins
bin_edge(range, bins, i) == range.first * bins + i * (range.last - range.first)

\* every bin half-open, the last one too
in_bin_half_open(range, bins, i, x) ==
    /\ bin_edge(range, bins, i) <= 2 * bins * x
    /\ 2 * bins * x < bin_edge(range, bins, i + 1)

\* the bin of a value: [edge i, edge i+1), the last bin closed on the right
in_bin(range, bins, i, x) ==
    /\ bin_edge(range, bins, i) <= 2 * bins * x
    /\ \/ 2 * bins * x < bin_edge(range, bins, i + 1)
       \/ i = bins - 1 /\ 2 * bins * x = bin_edge(range, bins, i + 1)

calc_distribution(power, bins) ==
    IF Len(power) = 0 THEN <<>>
    ELSE LET range == outer_edges(power)
         IN [k \in 1..bins |->
                LET i == k - 1
                    count == Cardinality({j \in 1..Len(power) : in_bin(range, bins, i, power[j])})
                IN [binStart |-> Round(100 * bin_edge(range, bins, i), 2 * bins),
                    binEnd |-> Round(100 * bin_edge(range, bins, i + 1), 2 * bins),
                    binCenter |-> Round(100 * (bin_edge(range, bins, i)
                                                  + bin_edge(range, bins, i + 1)), 4 * bins),
                    count |-> count,
                    frequency |-> Round(10000 * count, Len(power))]]

\* the value of rank k (from 0) of the values in increasing order
Ranked(vs, k) ==
    CHOOSE x \in {vs[i] : i \in 1..Len(vs)} :
        /\ Cardinality({j \in 1..Len(vs) : vs[j] < x}) <= k
        /\ Cardinality({j \in 1..Len(vs) : vs[j] <= x}) > k

\* np.percentile(power, p) in sixteenths, for p a multiple of 25: linear
\* interpolation between the two values around position (n - 1) * p / 100
percentile(vs, p) ==
    LET pos == (Len(vs) - 1) * p
        lo == pos \div 100
        a == Ranked(vs, lo)
        b == Ranked(vs, IF lo + 1 < Len(vs) THEN lo + 1 ELSE lo)
    IN 16 * a + (16 * (pos % 100) * (b - a)) \div 100

max2(x, y) == IF x >= y THEN x ELSE y

min2(x, y) == IF x <= y THEN x ELSE y

\* a whisker that is not held at the smallest value
lower_whisker_unclamped(power_min, q1, iqr) == min2(power_min, q1 - (3 * iqr) \div 2)

\* max(power.min(), q1 - 1.5 * iqr), in sixteenths
lower_whisker(power_min, q1, iqr) == max2(power_min, q1 - (3 * iqr) \div 2)

\* min(power.max(), q3 + 1.5 * iqr), in sixteenths
upper_whisker(power_max, q3, iqr) == min2(power_max, q3 + (3 * iqr) \div 2)

\* the 'quartiles' entry of calc_distribution, in hundredths; {} for no value
calc_quartiles(power) ==
    IF Len(power) = 0 THEN [empty |-> TRUE]
    ELSE LET q1 == percentile(power, 25)
             q2 == percentile(power, 50)
             q3 == percentile(power, 75)
             iqr == q3 - q1
         IN [empty |-> FALSE,
             q1 |-> Round(100 * q1, 16),
             q2 |-> Round(100 * q2, 16),
             q3 |-> Round(100 * q3, 16),
             iqr |-> Round(100 * iqr, 16),
             lowerWhisker |-> Round(100 * lower_whisker(16 * MinOf(power), q1, iqr), 16),
             upperWhisker |-> Round(100 * upper_whisker(16 * MaxOf(power), q3, iqr), 16)]

distribution(df, pa, pb, args) ==
    [tourA |-> [histogram |->
                   calc_distribution(Values(dropna(Masked("distribution", pa, args))), args.bins)],
     tourB |-> [histogram |->
                   calc_distribution(Values(dropna(Masked("distribution", pb, args))), args.bins)]]

NoSample ==
    /\ sample = [power |-> <<>>, bins |-> 1]
    /\ histogram = NoneSeries
    /\ quartiles = NoneSeries

\* no function input for get_power_column, no thread inside load_all_data
NoColumns ==
    /\ columns = [cols |-> <<>>, tour |-> "A"]
    /\ power_col = [called |-> FALSE, pos |-> 0]

NoThreads == threads = <<>>

---------------------------------------------------------------------------
(* get_peak_analysis: analyze_peaks.  An hourly mean is kept as the sum    *)
(* and the number of its readings, and two means are compared exactly.     *)

\* power.groupby(power.index.hour).mean(): one entry per hour of day with a
\* reading, in order of hour
hourly_avg(power) ==
    LET hours == SortedInts({HourOfDay(power[i].key.t) : i \in 1..Len(power)})
    IN [k \in 1..Len(hours) |->
           LET at == SelectSeq(power, LAMBDA e : HourOfDay(e.key.t) = hours[k])
           IN [hour |-> hours[k], sum |-> SumSeq(Values(at)), n |-> Len(at)]]

\* x comes strictly before y: a larger mean for nlargest, a smaller one for nsmallest
Precedes(x, y, largest) ==
    IF largest THEN x.sum * y.n > y.sum * x.n ELSE x.sum * y.n < y.sum * x.n

RECURSIVE ValueOrders(_, _)
\* sort_values: every order by value, entries of equal value in any order
ValueOrders(avg, largest) ==
    IF avg = <<>> THEN {<<>>}
    ELSE UNION {{<<avg[i]>> \o o : o \in ValueOrders(RemoveAt(avg, i), largest)} :
                    i \in {m \in 1..Len(avg) : \A j \in 1..Len(avg) : ~Precedes(avg[j], avg[m], largest)}}

RECURSIVE KeepFirst(_, _)
\* the order by value with entries of equal value in index order (keep='first')
KeepFirst(avg, largest) ==
    IF avg = <<>> THEN <<>>
    ELSE LET m == CHOOSE i \in 1..Len(avg) :
                      /\ \A j \in 1..Len(avg) : ~Precedes(avg[j], avg[i], largest)
                      /\ \A j \in 1..(i - 1) : Precedes(avg[i], avg[j], largest)
         IN <<avg[m]>> \o KeepFirst(RemoveAt(avg, m), largest)

\* Series.nlargest / nsmallest: nothing for n <= 0, the whole series sorted by
\* value for n >= len, else the first n of the order that keeps the first of
\* equal values
select_n(avg, n, largest) ==
    IF n <= 0 THEN {<<>>}
    ELSE IF n >= Len(avg) THEN ValueOrders(avg, largest)
    ELSE {SubSeq(KeepFirst(avg, largest), 1, n)}

\* the n smallest in place of the n largest
nlargest_reversed(avg, n) == select_n(avg, n, FALSE)

nlargest(avg, n) == select_n(avg, n, TRUE)

nsmallest(avg, n) == select_n(avg, n, FALSE)

\* the list comprehension over the selected entries
hours_data(sel) == [k \in 1..Len(sel) |-> [hour |-> sel[k].hour, avgPower |-> Round(100 * sel[k].sum, sel[k].n)]]

\* the peakHours and offPeakHours analyze_peaks may return
analyze_peaks(power, top_n) ==
    IF Len(power) = 0 THEN {[peakHours |-> <<>>, offPeakHours |-> <<>>]}
    ELSE {[peakHours |-> hours_data(p), offPeakHours |-> hours_data(o)] :
             p \in nlargest(hourly_avg(power), top_n), o \in nsmallest(hourly_avg(power), top_n)}

\* no function input for calc_quality
NoWindow ==
    /\ window = [missing |-> 0, zero |-> 0, positive |-> 0, negative |-> 0]
    /\ quality = NoneSeries

\* no function input for analyze_peaks
NoPeaks ==
    /\ peak_input = [power |-> <<>>, top_n |-> 0]
    /\ peaks = NoneSeries

---------------------------------------------------------------------------
(* get_comparison_metrics: values in hundredths, percentages of time in      *)
(* tenths, correlation and load factors in thousandths                       *)

\* filtered_a[common_index]: the rows of a series at the common timestamps
Aligned(s, other) ==
    LET InCommon(e) == HasKey(other, e.key)
    IN SelectSeq(s, InCommon)

RECURSIVE Dot(_, _)
\* the sum of the products of two sequences of equal length
Dot(x, y) == IF x = <<>> THEN 0 ELSE Head(x) * Head(y) + Dot(Tail(x), Tail(y))

RECURSIVE CmpFrac(_, _, _, _)
\* the sign of a/b - c/d for a, c >= 0 and b, d > 0, by continued fractions
CmpFrac(a, b, c, d) ==
    LET qa == a \div b
        qc == c \div d
        ra == a % b
        rc == c % d
    IN IF qa # qc THEN (IF qa < qc THEN 0 - 1 ELSE 1)
       ELSE IF ra = 0 \/ rc = 0 THEN (IF ra = rc THEN 0 ELSE IF ra = 0 THEN 0 - 1 ELSE 1)
       ELSE 0 - CmpFrac(b, ra, d, rc)

\* the sign of num / sqrt(sq) - p / 2000, for sq > 0
CmpRoot(num, sq, p) ==
    IF num >= 0 /\ p < 0 THEN 1
    ELSE IF num < 0 /\ p >= 0 THEN 0 - 1
    ELSE IF num >= 0 THEN CmpFrac(num * num, sq, p * p, 4000000)
    ELSE 0 - CmpFrac(num * num, sq, p * p, 4000000)

RECURSIVE RoundRoot(_, _, _, _)
\* round(num / sqrt(sq), 3) in thousandths, between lo and hi
RoundRoot(num, sq, lo, hi) ==
    IF lo = hi THEN lo
    ELSE LET mid == (lo + hi + 1) \div 2
             c == CmpRoot(num, sq, 2 * mid - 1)
         IN IF c > 0 \/ (c = 0 /\ mid % 2 = 0)
            THEN RoundRoot(num, sq, mid, hi)
            ELSE RoundRoot(num, sq, lo, mid - 1)

\* a correlation that takes every pair of equal series for uncorrelated
corr_by_difference(x, y) == IF x = y THEN 0 ELSE 1000

\* aligned_a.corr(aligned_b), rounded: Pearson's coefficient, nan when one of
\* the series does not vary
corr(x, y) ==
    LET n == Len(x)
        cov == n * Dot(x, y) - SumSeq(x) * SumSeq(y)
        var_x == n * Dot(x, x) - SumSeq(x) * SumSeq(x)
        var_y == n * Dot(y, y) - SumSeq(y) * SumSeq(y)
    IN IF var_x = 0 \/ var_y = 0 THEN NaN
       ELSE RoundRoot(cov, var_x * var_y, 0 - 1000, 1000)

\* the building of the higher average
more_efficient_reversed(sum_a, sum_b) == IF sum_a > sum_b THEN "Tour A" ELSE "Tour B"

\* 'Tour A' if avg_a < avg_b else 'Tour B', the averages being of as many values
more_efficient(sum_a, sum_b) == IF sum_a < sum_b THEN "Tour A" ELSE "Tour B"

\* abs, of a difference
Abs(x) == IF x < 0 THEN 0 - x ELSE x

comparison(df, pa, pb, args) ==
    LET filtered_a == dropna(Masked("comparison", pa, args))
        filtered_b == dropna(Masked("comparison", pb, args))
        aligned_a == Values(Aligned(filtered_a, filtered_b))
        aligned_b == Values(Aligned(filtered_b, filtered_a))
        hour_of == [i \in 1..Len(aligned_a) |-> HourOfDay(Aligned(filtered_a, filtered_b)[i].key.t)]
        n == Len(aligned_a)
        none == n = 0
        sum_a == SumSeq(aligned_a)
        sum_b == SumSeq(aligned_b)
        \* the mean and the maximum of nothing are nan, and nan > 0 is False
        avg_a == IF none THEN NaN ELSE Round(100 * sum_a, n)
        avg_b == IF none THEN NaN ELSE Round(100 * sum_b, n)
        diff_abs == IF none THEN NaN ELSE Round(100 * (sum_b - sum_a), n)
        diff_pct == IF ~none /\ sum_a > 0 THEN Round(10000 * (sum_b - sum_a), sum_a) ELSE 0
        correlation == IF n > 1 THEN corr(aligned_a, aligned_b) ELSE 0
        hours == SortedInts({hour_of[i] : i \in 1..n})
        At(h) == {i \in 1..n : hour_of[i] = h}
        RECURSIVE Sum(_, _)
        Sum(x, I) == IF I = {} THEN 0
                     ELSE LET i == CHOOSE j \in I : TRUE IN x[i] + Sum(x, I \ {i})
        hourly_diff(h) == Sum(aligned_b, At(h)) - Sum(aligned_a, At(h))
        Larger(h, g) == Abs(hourly_diff(h)) * Cardinality(At(g))
                            > Abs(hourly_diff(g)) * Cardinality(At(h))
        \* idxmax: the first hour of the largest absolute difference
        max_diff_hour ==
            IF none THEN 0
            ELSE hours[CHOOSE i \in 1..Len(hours) :
                         /\ \A j \in 1..Len(hours) : ~Larger(hours[j], hours[i])
                         /\ \A j \in 1..(i - 1) : Larger(hours[i], hours[j])]
        max_diff_value ==
            IF none THEN 0
            ELSE Round(100 * hourly_diff(max_diff_hour), Cardinality(At(max_diff_hour)))
        peak_a == IF none THEN NaN ELSE MaxOf(aligned_a)
        peak_b == IF none THEN NaN ELSE MaxOf(aligned_b)
        peak_diff_pct == IF ~none /\ peak_a > 0
                         THEN Round(10000 * (peak_b - peak_a), peak_a) ELSE 0
        has_a == ~none /\ peak_a > 0
        has_b == ~none /\ peak_b > 0
        load_factor_a == IF has_a THEN Round(1000 * sum_a, n * peak_a) ELSE 0
        load_factor_b == IF has_b THEN Round(1000 * sum_b, n * peak_b) ELSE 0
        \* load_factor_a > load_factor_b, before any rounding
        a_wins == IF has_a /\ has_b THEN sum_a * peak_b > sum_b * peak_a
                  ELSE has_a /\ sum_a > 0
        a_higher_count == Cardinality({i \in 1..n : aligned_a[i] > aligned_b[i]})
        b_higher_count == Cardinality({i \in 1..n : aligned_b[i] > aligned_a[i]})
    IN [averages |-> [tourA |-> avg_a, tourB |-> avg_b, difference |-> diff_abs,
                      differencePercent |-> diff_pct,
                      moreEfficient |-> IF none THEN "Tour B" ELSE more_efficient(sum_a, sum_b)],
        peaks |-> [tourA |-> IF none THEN NaN ELSE 100 * peak_a,
                   tourB |-> IF none THEN NaN ELSE 100 * peak_b,
                   difference |-> IF none THEN NaN ELSE 100 * (peak_b - peak_a),
                   differencePercent |-> peak_diff_pct],
        correlation |-> [value |-> correlation],
        loadFactors |-> [tourA |-> load_factor_a, tourB |-> load_factor_b,
                         winner |-> IF a_wins THEN "Tour A" ELSE "Tour B"],
        timeComparison |->
            [tourAHigherPercent |-> IF none THEN 0 ELSE Round(1000 * a_higher_count, n),
             tourBHigherPercent |-> IF none THEN 0 ELSE Round(1000 * b_higher_count, n),
             tourAHigherCount |-> a_higher_count,
             tourBHigherCount |-> b_higher_count],
        hourlyComparison |-> [maxDifferenceHour |-> max_diff_hour,
                              maxDifferenceValue |-> max_diff_value],
        dataPoints |-> [total |-> n, commonTimePoints |-> n]]

---------------------------------------------------------------------------
(* The query handlers *)

\* the body of a response that carries no result
NoBody == [none |-> TRUE]

\* the result payload of a handler that got through
Payload(op, df, pa, pb, args) ==
    CASE op = "summary" -> summary(df, pa.val, pb.val, args)
      [] op = "data-quality" -> data_quality(df, pa.val, pb.val, args)
      [] op = "hourly" -> hourly(df, pa.val, pb.val, args)
      [] op = "weekly" -> weekly(df, pa.val, pb.val, args)
      [] op = "monthly" -> monthly(df, pa.val, pb.val, args)
      [] op = "timeseries" -> timeseries(df, pa.val, pb.val, args)
      [] op = "comparison" -> comparison(df, pa.val, pb.val, args)
      [] op = "distribution" -> distribution(df, pa.val, pb.val, args)
      [] OTHER -> NoBody

\* what building the mask does to a frame whose index is no DatetimeIndex:
\* to_period does not exist on it, and it does not compare with a Timestamp
MaskError(op, args) ==
    IF op \in {"monthly"}
    THEN (IF args.year # 0 THEN "AttributeError" ELSE "none")
    ELSE IF args.month # 0 THEN "AttributeError"
    ELSE IF op \in {"hourly"} /\ args.day_of_week >= 0 THEN "AttributeError"
    ELSE IF op \in {"summary", "timeseries", "distribution", "peak-analysis",
                    "data-quality", "comparison"}
            /\ (args.start_date # 0 \/ args.end_date # 0) THEN "TypeError"
    ELSE "none"

\* what a handler does once df is not None: "ok" for a result payload, the
\* error message of an error response, or the exception that escapes.  A
\* frame whose index is no DatetimeIndex has no .hour, .dayofweek or resample.
HandlerBody(op, df, pa, pb, args) ==
    LET dti == df.ikind = "datetime"
    IN IF op = "data-info" THEN (IF dti THEN "ok" ELSE "AttributeError")
       ELSE IF ~dti /\ MaskError(op, args) # "none" THEN MaskError(op, args)
       ELSE IF ~pa.some \/ ~pb.some THEN "TypeError"
       ELSE LET a == dropna(IF dti THEN Masked(op, pa.val, args) ELSE pa.val)
                b == dropna(IF dti THEN Masked(op, pb.val, args) ELSE pb.val)
            IN CASE op \in {"summary", "insights"} ->
                       IF dti \/ (a = <<>> /\ b = <<>>) THEN "ok" ELSE "AttributeError"
                 [] op \in {"hourly", "weekly", "heatmap"} ->
                       IF dti THEN "ok" ELSE "AttributeError"
                 [] op \in {"monthly", "timeseries"} ->
                       IF dti THEN "ok" ELSE "TypeError"
                 [] op \in {"distribution", "data-quality"} -> "ok"
                 [] op = "peak-analysis" ->
                       IF dti \/ (a = <<>> /\ b = <<>>) THEN "ok" ELSE "AttributeError"
                 [] op = "comparison" ->
                       IF a = <<>> \/ b = <<>> THEN "Insufficient data for comparison"
                       ELSE IF ~dti THEN "AttributeError"
                       ELSE IF KeysOf(Aligned(a, b)) # KeysOf(Aligned(b, a)) THEN "ValueError"
                       ELSE "ok"

\* a handler that goes on to its body without testing df
HandlerStatusUnchecked(op, r, args) ==
    IF r.outcome # "returned" THEN r.outcome ELSE HandlerBody(op, r.df.val, r.pa, r.pb, args)

\* df, power_a, power_b = load_all_data(); if df is None: return the error
HandlerStatus(op, r, args) ==
    IF r.outcome # "returned" THEN r.outcome
    ELSE IF ~r.df.some THEN "No data available"
    ELSE HandlerBody(op, r.df.val, r.pa, r.pb, args)

\* a handler that drops the missing readings of the cached series in place
AfterQueryInPlace(op, o) ==
    [o EXCEPT !.pa = IF o.pa.some THEN Some(dropna(o.pa.val)) ELSE o.pa,
              !.pb = IF o.pb.some THEN Some(dropna(o.pb.val)) ELSE o.pb]

\* the handlers filter copies (power_a[mask], .dropna()): the globals they read
\* are left as load_all_data left them
AfterQuery(op, o) == o

NoResponse == [op |-> "none", status |-> "none", hit |-> FALSE, args |-> NoArgs, body |-> NoBody]

Respond(op, r, args) ==
    LET status == HandlerStatus(op, r, args)
    IN [op |-> op, status |-> status, hit |-> _data_cache.some, args |-> args,
        body |-> IF status = "ok" THEN Payload(op, r.df.val, r.pa, r.pb, args) ELSE NoBody]

Handler(op, args) ==
    /\ MayLoad
    /\ \E o \in app_load_all_data :
          /\ Commit(AfterQuery(op, o))
          /\ resp' = Respond(op, o.ret, args)
    /\ UNCHANGED <<files, cacheFiles, fnVars>>

get_data_info(args) == Handler("data-info", args)
get_summary(args) == Handler("summary", args)
get_hourly_data(args) == Handler("hourly", args)
get_weekly_data(args) == Handler("weekly", args)
get_monthly_data(args) == Handler("monthly", args)
get_timeseries_data(args) == Handler("timeseries", args)
get_insights(args) == Handler("insights", args)
get_heatmap_data(args) == Handler("heatmap", args)
get_distribution_data(args) == Handler("distribution", args)
get_peak_analysis(args) == Handler("peak-analysis", args)
get_data_quality(args) == Handler("data-quality", args)
get_comparison_metrics(args) == Handler("comparison", args)

\* the query operations
Ops == {"summary", "hourly", "weekly", "monthly", "timeseries", "distribution",
        "peak-analysis", "data-quality", "comparison"}

---------------------------------------------------------------------------
(* normalize_column_name, on names as sequences of characters *)

IsSpace(c) == c = " "
IsDigit(c) == c = "1"

RECURSIVE RStrip(_)
RStrip(s) == IF s # <<>> /\ IsSpace(s[Len(s)]) THEN RStrip(SubSeq(s, 1, Len(s) - 1)) ELSE s

RECURSIVE LStrip(_)
LStrip(s) == IF s # <<>> /\ IsSpace(Head(s)) THEN LStrip(Tail(s)) ELSE s

\* str.strip()
Strip(s) == LStrip(RStrip(s))

RECURSIVE RStripDigits(_)
RStripDigits(s) ==
    IF s # <<>> /\ IsDigit(s[Len(s)]) THEN RStripDigits(SubSeq(s, 1, Len(s) - 1)) ELSE s

\* re.sub(r'\s*\d+$', '', s): the final run of digits goes, with the whitespace before it
StripNumericSuffix(s) ==
    IF s # <<>> /\ IsDigit(s[Len(s)]) THEN RStrip(RStripDigits(s)) ELSE s

NameDate == <<"D", "a", "t", "e">>
NameTime == <<"T", "i", "m", "e">>

normalize_column_name(col_name) ==
    LET n == StripNumericSuffix(Strip(col_name))
    IN IF ~(n # <<>> /\ n[Len(n)] = " ") /\ n \notin {NameDate, NameTime}
       THEN n \o <<" ">> ELSE n

NameInputs ==
    {pre \o core \o suf :
        pre \in {<<>>, <<" ">>},
        core \in {<<>>, <<"a">>, NameDate, NameTime},
        suf \in SeqsUpTo({"a", "1", " "}, MaxSuffix)}

---------------------------------------------------------------------------
(* Specifications *)

Unloaded ==
    /\ _data_cache = NoneFrame
    /\ _power_a_cache = NoneSeries
    /\ _power_b_cache = NoneSeries
    /\ all_data = <<>>
    /\ ret = NotCalled
    /\ pipelineRuns = 0
    /\ loadCalls = 0
    /\ resp = NoResponse

NoFunctionInput ==
    /\ series = <<>>
    /\ cleaned = NoneSeries
    /\ colName = <<>>
    /\ normalized = <<>>
    /\ NoDirectory
    /\ NoSample
    /\ NoColumns
    /\ NoThreads
    /\ NoPeaks
    /\ NoWindow

\* the server (app.py): a data directory, with or without the processed files
\* beside it
Init ==
    /\ \/ files \in QueryDirs /\ cacheFiles = NoCacheFiles
       \/ files \in SeqsUpTo(FilePool, 1) /\ cacheFiles = CacheFilesAB
    /\ Unloaded
    /\ NoFunctionInput

Next ==
    \/ Preload
    \/ get_data_info(NoArgs)
    \/ get_summary(NoArgs)
    \/ get_hourly_data(NoArgs)
    \/ get_weekly_data(NoArgs)
    \/ get_monthly_data(NoArgs)
    \/ get_timeseries_data(NoArgs)
    \/ get_insights(NoArgs)
    \/ get_heatmap_data(NoArgs)
    \/ get_distribution_data(NoArgs)
    \/ get_peak_analysis(NoArgs)
    \/ get_data_quality(NoArgs)
    \/ get_comparison_metrics(NoArgs)

Spec == Init /\ [][Next]_vars

\* ingestion alone (data_loader.py), over every small directory
InitIngest ==
    /\ \/ files \in IngestDirs /\ cacheFiles = NoCacheFiles
       \/ files \in SeqsUpTo(FilePool, 1) /\ cacheFiles = CacheFilesAB
    /\ Unloaded
    /\ NoFunctionInput

NextIngest == LoadAllData

SpecIngest == InitIngest /\ [][NextIngest]_vars

\* directories whose files overlap in time: each file has one or two rows at
\* the two timestamps, under one of two headers
OverlapRows == {<<RowDay2>>, <<RowDay1Noon>>, <<RowDay2, RowDay1Noon>>, <<RowDay1Noon, RowDay2>>,
                <<RowDay2, RowDay2>>}

OverlapFiles == {File(h, rs) : h \in {HeaderAB, HeaderB}, rs \in OverlapRows}

InitOverlap ==
    /\ files \in SeqsUpTo(OverlapFiles, MaxFiles)
    /\ cacheFiles = NoCacheFiles
    /\ Unloaded
    /\ NoFunctionInput

NextOverlap == LoadAllData

SpecOverlap == InitOverlap /\ [][NextOverlap]_vars

\* the files the result payloads are computed on: one file with a row at each
\* time of a subset of TimePool, in time order, each with a pair of readings
TimeOrder == <<<<1, "00:00:00">>, <<1, "12:00:00">>, <<2, "00:00:00">>, <<2, "12:00:00">>>>

ReadingPool ==
    {<<10, 20>>, <<10, 10>>, <<20, 20>>, <<10, NaN>>, <<NaN, 20>>, <<0, NaN>>}

Absent == <<>>

QueryFiles ==
    {LET all == [i \in 1..Len(TimeOrder) |->
                    [present |-> f[i] # Absent,
                     row |-> IF f[i] = Absent THEN RowDay2
                             ELSE Row(TimeOrder[i][1], TimeOrder[i][2], f[i][1], f[i][2])]]
         IsPresent(e) == e.present
         kept == SelectSeq(all, IsPresent)
     IN File(HeaderAB, [i \in 1..Len(kept) |-> kept[i].row]) :
        f \in [1..Len(TimeOrder) -> ReadingPool \cup {Absent}]}

\* the month, start_date and end_date a query is made with
FilterArgs == {Args(m, s, e, 0 - 1, 0, "daily", 30) : m \in {0, 3}, s \in {0, 2}, e \in {0, 1}}

\* the server after its preload of one of the query files
InitQuery ==
    /\ files \in {<<f>> : f \in QueryFiles}
    /\ cacheFiles = NoCacheFiles
    /\ \E o \in Pipeline(files, NoneFrame, NoneSeries, NoneSeries, 1) :
          /\ _data_cache = o.dc
          /\ _power_a_cache = o.pa
          /\ _power_b_cache = o.pb
          /\ all_data = o.all_data
          /\ ret = o.ret
          /\ pipelineRuns = o.runs
    /\ loadCalls = 1
    /\ resp = NoResponse
    /\ NoFunctionInput

\* summary, data quality and comparison under every filter: the first query
\* of the server, an answer depending on the cache and the arguments only
NextSummary ==
    \E args \in FilterArgs :
        /\ resp.op = "none"
        /\ \/ get_summary(args)
           \/ get_data_quality(args)
           \/ get_comparison_metrics(args)

SpecSummary == InitQuery /\ [][NextSummary]_vars

\* Series.to_csv: a line for every row, none for a series without rows
to_csv(s) == [i \in 1..Len(s) |-> Line(s[i].key, s[i].v)]

\* the processed files a prior run leaves: its two cleaned series
Persisted(pa, pb) == [present |-> TRUE, a |-> to_csv(pa.val), b |-> to_csv(pb.val)]

\* a process that starts beside the processed files of a run over its source
\* files
InitFastPath ==
    /\ files \in {<<f>> : f \in QueryFiles \cup FilePool}
    /\ \E o \in Pipeline(files, NoneFrame, NoneSeries, NoneSeries, 1) :
          /\ o.ret.outcome = "returned"
          /\ o.pa.some
          /\ o.pb.some
          /\ cacheFiles = Persisted(o.pa, o.pb)
    /\ Unloaded
    /\ NoFunctionInput

NextFastPath == LoadAllData

SpecFastPath == InitFastPath /\ [][NextFastPath]_vars

\* a process that starts on source files alone, or beside the processed files
\* of a prior run
InitEitherPath ==
    \/ /\ files \in QueryDirs
       /\ cacheFiles = NoCacheFiles
       /\ Unloaded
       /\ NoFunctionInput
    \/ InitFastPath

NextEitherPath == LoadAllData

SpecEitherPath == InitEitherPath /\ [][NextEitherPath]_vars

\* source files in which two columns have the name of a building's main
\* meter (two spreadsheet columns whose names differ in a numeric suffix
\* normalize to one name), beside files that have it once
HeaderTwiceA == [dt |-> TRUE, cols |-> <<ColA, ColA, ColB>>]

HeaderTwiceB == [dt |-> TRUE, cols |-> <<ColA, ColB, ColB>>]

RepeatedColumnFiles ==
    {FailingFile,
     File(HeaderTwiceA, <<RowDay2, RowDay1Noon>>),
     File(HeaderTwiceA, <<RowDay2>>),
     File(HeaderTwiceB, <<RowDay2, RowDay1Noon>>),
     File(HeaderTwiceB, <<RowDay1Noon>>),
     File(HeaderAB, <<RowDay2, RowDay1Noon>>),
     File(HeaderB, <<RowDay1Noon, RowDay2>>)}

InitRepeatedColumns ==
    /\ files \in SeqsUpTo(RepeatedColumnFiles, MaxFiles)
    /\ cacheFiles = NoCacheFiles
    /\ Unloaded
    /\ NoFunctionInput

NextRepeatedColumns == LoadAllData

SpecRepeatedColumns == InitRepeatedColumns /\ [][NextRepeatedColumns]_vars

\* the arguments of the bucketed queries
HourlyArgs == {Args(m, 0, 0, d, 0, "daily", 30) : m \in {0, 3}, d \in {0 - 1, 0, 6}}
WeeklyArgs == {Args(m, 0, 0, 0 - 1, 0, "daily", 30) : m \in {0, 4}}
MonthlyArgs == {Args(0, 0, 0, 0 - 1, y, "daily", 30) : y \in {0, 2023, 2024}}
TimeseriesArgs ==
    {Args(m, 0, e, 0 - 1, 0, g, 30) :
        m \in {0, 4}, e \in {0, 1}, g \in {"daily", "hourly", "weekly", "monthly"}}

\* the hourly and weekly patterns, the monthly trend and the time series, as
\* the first query of the server
NextBuckets ==
    /\ resp.op = "none"
    /\ \/ \E args \in HourlyArgs : get_hourly_data(args)
       \/ \E args \in WeeklyArgs : get_weekly_data(args)
       \/ \E args \in MonthlyArgs : get_monthly_data(args)
       \/ \E args \in TimeseriesArgs : get_timeseries_data(args)

SpecBuckets == InitQuery /\ [][NextBuckets]_vars

\* clean_power_data as a function of its input series
CleanValues == {NaN, 0 - 5, 0, 10, 40, 60}

CleanInputs ==
    SeqsUpTo(CleanValues, MaxSeriesLen)
        \cup {[i \in 1..(k + 1) |-> IF i <= k THEN 0 ELSE v] : k \in 1..MaxZeros, v \in CleanValues}

InitClean ==
    /\ files = <<>>
    /\ cacheFiles = NoCacheFiles
    /\ Unloaded
    /\ series \in CleanInputs
    /\ cleaned = NoneSeries
    /\ colName = <<>>
    /\ normalized = <<>>
    /\ NoDirectory
    /\ NoSample
    /\ NoColumns
    /\ NoThreads
    /\ NoPeaks
    /\ NoWindow

CleanPowerData ==
    /\ ~cleaned.some
    /\ cleaned' = Some(clean_power_data(series))
    /\ UNCHANGED <<files, cacheFiles, cacheVars, loadVars, resp, series, colName, normalized, dirVars, histVars, colVars, threads, peak_input, peaks, window, quality>>

SpecClean == InitClean /\ [][CleanPowerData]_vars

\* normalize_column_name applied to a column name, then to its own result
InitNormalize ==
    /\ files = <<>>
    /\ cacheFiles = NoCacheFiles
    /\ Unloaded
    /\ series = <<>>
    /\ cleaned = NoneSeries
    /\ colName \in NameInputs
    /\ normalized = <<>>
    /\ NoDirectory
    /\ NoSample
    /\ NoColumns
    /\ NoThreads
    /\ NoPeaks
    /\ NoWindow

NormalizeColumnName ==
    /\ Len(normalized) < 2
    /\ normalized' = Append(normalized,
                            normalize_column_name(IF normalized = <<>> THEN colName
                                                  ELSE normalized[Len(normalized)]))
    /\ UNCHANGED <<files, cacheFiles, cacheVars, loadVars, resp, series, cleaned, colName, dirVars, histVars, colVars, threads, peak_input, peaks, window, quality>>

SpecNormalize == InitNormalize /\ [][NormalizeColumnName]_vars

\* get_data_files over a directory tree, called again and again
InitFiles ==
    /\ files = <<>>
    /\ cacheFiles = NoCacheFiles
    /\ Unloaded
    /\ series = <<>>
    /\ cleaned = NoneSeries
    /\ colName = <<>>
    /\ normalized = <<>>
    /\ data_dir \in Trees
    /\ data_files = NoneSeries
    /\ NoSample
    /\ NoColumns
    /\ NoThreads
    /\ NoPeaks
    /\ NoWindow

GetDataFiles ==
    /\ \E found \in get_data_files(data_dir) : data_files' = Some(found)
    /\ UNCHANGED <<files, cacheFiles, cacheVars, loadVars, resp, series, cleaned, colName,
                   normalized, data_dir, histVars, colVars, threads, peak_input, peaks, window, quality>>

SpecFiles == InitFiles /\ [][GetDataFiles]_vars

\* calc_distribution as a function of the filtered series and the bin count:
\* short series of a few values, and the hundred values 0..99
SampleValues == {0, 5, 10, 20}
BinCounts == {1, 2, 3, 10}
Hundred == [i \in 1..100 |-> i - 1]

\* series with readings far from the quartiles, one of them negative
OutlierSamples ==
    {<<0, 10, 10, 10, 10>>, <<0 - 20, 9, 10, 10, 11, 40>>, <<1, 10, 11, 12, 13, 14, 15, 30>>,
     <<10, 0, 3, 7, 100>>}

InitHistogram ==
    /\ files = <<>>
    /\ cacheFiles = NoCacheFiles
    /\ Unloaded
    /\ series = <<>>
    /\ cleaned = NoneSeries
    /\ colName = <<>>
    /\ normalized = <<>>
    /\ NoDirectory
    /\ sample \in [power : SeqsUpTo(SampleValues, MaxSeriesLen) \cup {Hundred} \cup OutlierSamples,
                    bins : BinCounts]
    /\ histogram = NoneSeries
    /\ quartiles = NoneSeries
    /\ NoColumns
    /\ NoThreads
    /\ NoPeaks
    /\ NoWindow

CalcDistribution ==
    /\ ~histogram.some
    /\ histogram' = Some(calc_distribution(sample.power, sample.bins))
    /\ quartiles' = Some(calc_quartiles(sample.power))
    /\ UNCHANGED <<files, cacheFiles, cacheVars, loadVars, resp, series, cleaned, colName,
                   normalized, dirVars, sample, colVars, threads, peak_input, peaks, window, quality>>

SpecHistogram == InitHistogram /\ [][CalcDistribution]_vars

\* get_power_column as a function: every column a name can be for the four
\* tests, in tables of up to MaxColumns columns
MaxColumns == 2

ColumnPool ==
    {Col(tok, kwsys, avg, kvar) : tok \in {Prefix("A"), Prefix("B"), "other"},
                                  kwsys \in BOOLEAN, avg \in BOOLEAN, kvar \in BOOLEAN}

InitColumns ==
    /\ files = <<>>
    /\ cacheFiles = NoCacheFiles
    /\ Unloaded
    /\ series = <<>>
    /\ cleaned = NoneSeries
    /\ colName = <<>>
    /\ normalized = <<>>
    /\ NoDirectory
    /\ NoSample
    /\ NoThreads
    /\ NoPeaks
    /\ NoWindow
    /\ columns \in [cols : SeqsUpTo(ColumnPool, MaxColumns), tour : {"A", "a", "B"}]
    /\ power_col = [called |-> FALSE, pos |-> 0]

GetPowerColumn ==
    /\ ~power_col.called
    /\ power_col' = [called |-> TRUE, pos |-> get_power_column(columns.cols, columns.tour)]
    /\ UNCHANGED <<files, cacheFiles, cacheVars, loadVars, resp, series, cleaned, colName,
                   normalized, dirVars, histVars, columns, threads, peak_input, peaks, window, quality>>

SpecColumns == InitColumns /\ [][GetPowerColumn]_vars

\* analyze_peaks as a function: a filtered series with readings at four hours
\* of the first day and two of the second, and a top_n from none to more than
\* the hours there are
PeakTimes == <<24, 30, 36, 42, 48, 54>>

PeakValues == {NaN, 10, 20}

TopN == {0, 1, 2, 3, 5}

PeakSeries(f) == dropna([i \in 1..Len(PeakTimes) |-> [key |-> Timestamp(PeakTimes[i]), v |-> f[i]]])

InitPeaks ==
    /\ files = <<>>
    /\ cacheFiles = NoCacheFiles
    /\ Unloaded
    /\ series = <<>>
    /\ cleaned = NoneSeries
    /\ colName = <<>>
    /\ normalized = <<>>
    /\ NoDirectory
    /\ NoSample
    /\ NoColumns
    /\ NoThreads
    /\ NoWindow
    /\ peak_input \in {[power |-> PeakSeries(f), top_n |-> n] :
                          f \in [1..Len(PeakTimes) -> PeakValues], n \in TopN}
    /\ peaks = NoneSeries

AnalyzePeaks ==
    /\ ~peaks.some
    /\ \E r \in analyze_peaks(peak_input.power, peak_input.top_n) : peaks' = Some(r)
    /\ UNCHANGED <<files, cacheFiles, cacheVars, loadVars, resp, series, cleaned, colName,
                   normalized, dirVars, histVars, colVars, threads, peak_input, window, quality>>

SpecPeaks == InitPeaks /\ [][AnalyzePeaks]_vars

\* calc_quality as a function of how many readings of each kind the filtered
\* series holds: missing, zero, above zero and below zero ones, few or very many
ReadingCounts == {0, 1, 2, 10000, 10001}

InitQuality ==
    /\ files = <<>>
    /\ cacheFiles = NoCacheFiles
    /\ Unloaded
    /\ series = <<>>
    /\ cleaned = NoneSeries
    /\ colName = <<>>
    /\ normalized = <<>>
    /\ NoDirectory
    /\ NoSample
    /\ NoColumns
    /\ NoThreads
    /\ NoPeaks
    /\ window \in [missing : ReadingCounts, zero : ReadingCounts, positive : ReadingCounts,
                   negative : ReadingCounts]
    /\ quality = NoneSeries

\* calc_quality over the window, then the two issue tests
CalcQuality ==
    /\ ~quality.some
    /\ LET q == quality_report(window.missing + window.zero + window.positive + window.negative,
                               window.zero + window.positive + window.negative,
                               window.missing,
                               window.zero,
                               window.positive)
       IN quality' = Some([report |-> q, issues |-> Issues(q)])
    /\ UNCHANGED <<files, cacheFiles, cacheVars, loadVars, resp, series, cleaned, colName,
                   normalized, dirVars, histVars, colVars, threads, peak_input, peaks, window>>

SpecQuality == InitQuality /\ [][CalcQuality]_vars

---------------------------------------------------------------------------
(* Request threads inside app.py's load_all_data.  The development server  *)
(* handles each request in a thread of its own and load_all_data takes no  *)
(* lock, so the statements of two calls interleave; a statement is taken   *)
(* as one step.                                                            *)

MaxThreads == 2

Threads == 1..MaxThreads

inputVars == <<series, cleaned, colName, normalized, dirVars, histVars, colVars, peak_input, peaks, window, quality>>

\* lines 120-130: discovery, the loading loop, concat, notna and sort_index, all
\* on locals: the frame about to be assigned, when the steps give one
Assemble(fs) ==
    LET loaded == LoadLoop(fs)
    IN IF loaded = <<>>
       THEN {[outcome |-> "nothing", df |-> NoFrame]}
       ELSE UNION {LET combined == DropNaT(Concat(loaded, ikind))
                   IN IF ~Comparable(combined.rows)
                      THEN {[outcome |-> "TypeError", df |-> NoFrame]}
                      ELSE {[outcome |-> "assembled", df |-> [combined EXCEPT !.rows = ordered]] :
                               ordered \in sort_index(combined.rows)} :
                   ikind \in ConcatKinds(loaded)}

Thread(pc, df, r) == [pc |-> pc, df |-> df, ret |-> r]

AtLine(t, pc) == threads[t].pc = pc

Goto(t, pc, df, r) == threads' = [threads EXCEPT ![t] = Thread(pc, df, r)]

\* line 117: if _data_cache is not None
t_check(t) ==
    /\ AtLine(t, "check")
    /\ Goto(t, IF _data_cache.some THEN "return_held" ELSE "load", NoFrame, NotCalled)
    /\ UNCHANGED <<files, cacheFiles, cacheVars, loadVars, resp, inputVars>>

\* line 118: return _data_cache, _power_a_cache, _power_b_cache
t_return_held(t) ==
    /\ AtLine(t, "return_held")
    /\ Goto(t, "done", NoFrame, Returned(_data_cache, _power_a_cache, _power_b_cache))
    /\ UNCHANGED <<files, cacheFiles, cacheVars, loadVars, resp, inputVars>>

\* lines 120-130 and 150
t_load(t) ==
    /\ AtLine(t, "load")
    /\ \E a \in Assemble(files) :
          CASE a.outcome = "nothing" ->
                  Goto(t, "done", NoFrame, Returned(NoneFrame, NoneSeries, NoneSeries))
            [] a.outcome = "TypeError" -> Goto(t, "done", NoFrame, Raised("TypeError"))
            [] OTHER -> Goto(t, "assign_data", a.df, NotCalled)
    /\ UNCHANGED <<files, cacheFiles, cacheVars, loadVars, resp, inputVars>>

\* line 131: _data_cache = combined_df
t_assign_data(t) ==
    /\ AtLine(t, "assign_data")
    /\ _data_cache' = Some(threads[t].df)
    /\ Goto(t, "assign_a", threads[t].df, NotCalled)
    /\ UNCHANGED <<files, cacheFiles, _power_a_cache, _power_b_cache, loadVars, resp, inputVars>>

\* lines 134-138: both columns are looked up, then if power_col_a: _power_a_cache = ...
t_assign_a(t) ==
    /\ AtLine(t, "assign_a")
    /\ LET pa == PowerCache(threads[t].df, "A")
       IN _power_a_cache' = IF pa.some THEN pa ELSE _power_a_cache
    /\ Goto(t, "assign_b", threads[t].df, NotCalled)
    /\ UNCHANGED <<files, cacheFiles, _data_cache, _power_b_cache, loadVars, resp, inputVars>>

\* lines 139-140: if power_col_b: _power_b_cache = ...
t_assign_b(t) ==
    /\ AtLine(t, "assign_b")
    /\ LET pb == PowerCache(threads[t].df, "B")
       IN _power_b_cache' = IF pb.some THEN pb ELSE _power_b_cache
    /\ Goto(t, "return", threads[t].df, NotCalled)
    /\ UNCHANGED <<files, cacheFiles, _data_cache, _power_a_cache, loadVars, resp, inputVars>>

\* line 143: return _data_cache, _power_a_cache, _power_b_cache
t_return(t) ==
    /\ AtLine(t, "return")
    /\ Goto(t, "done", NoFrame, Returned(_data_cache, _power_a_cache, _power_b_cache))
    /\ UNCHANGED <<files, cacheFiles, cacheVars, loadVars, resp, inputVars>>

\* the cache empty, every thread about to call load_all_data
InitThreads ==
    /\ files \in QueryDirs
    /\ cacheFiles = NoCacheFiles
    /\ Unloaded
    /\ series = <<>>
    /\ cleaned = NoneSeries
    /\ colName = <<>>
    /\ normalized = <<>>
    /\ NoDirectory
    /\ NoSample
    /\ NoColumns
    /\ NoPeaks
    /\ NoWindow
    /\ threads = [t \in Threads |-> Thread("check", NoFrame, NotCalled)]

NextThreads ==
    \E t \in Threads :
        \/ t_check(t)
        \/ t_return_held(t)
        \/ t_load(t)
        \/ t_assign_data(t)
        \/ t_assign_a(t)
        \/ t_assign_b(t)
        \/ t_return(t)

SpecThreads == InitThreads /\ [][NextThreads]_vars

---------------------------------------------------------------------------
(* Properties of the cache (SpecIngest) and of the query handlers (Spec) *)

Triple(r) == <<r.df, r.pa, r.pb>>

\* C1 as stated: once a call of load_all_data has returned, whatever it
\* returned, a later call returns the same triple and runs no discovery,
\* parsing or assembly again.
C1_AnyReturnIsHeld ==
    [][ret.outcome = "returned" =>
           /\ Triple(ret') = Triple(ret)
           /\ pipelineRuns' = pipelineRuns]_vars

\* C1 amended: once a call of load_all_data has returned a CombinedSeries (not
\* None), every later call returns the same triple and runs nothing of the
\* pipeline again; a call that found no usable file holds nothing, and the next
\* call runs discovery and loading again.
C1_PopulatedCacheIsHeld ==
    [][ret.outcome = "returned" =>
           IF ret.df.some
           THEN /\ Triple(ret') = Triple(ret)
                /\ pipelineRuns' = pipelineRuns
                /\ all_data' = all_data
           ELSE pipelineRuns' = pipelineRuns + 1]_vars

\* a second call has returned the held triple of a populated cache
C1_Witness ==
    /\ loadCalls >= 2
    /\ pipelineRuns = 1
    /\ ret.outcome = "returned"
    /\ ret.df.some
    /\ Len(ret.df.val.rows) >= 2

\* C2: no query operation changes the cached CombinedSeries, PowerSeries-A or
\* PowerSeries-B: once populated, the cache keeps the values it was given.
C2_QueriesKeepCache ==
    [][_data_cache.some =>
           /\ _data_cache' = _data_cache
           /\ _power_a_cache' = _power_a_cache
           /\ _power_b_cache' = _power_b_cache]_vars

\* a handler has answered from a populated cache that holds a missing reading
C2_Witness ==
    /\ resp.op = "comparison"
    /\ resp.hit
    /\ _data_cache.some
    /\ _power_a_cache.some
    /\ \E i \in 1..Len(_power_a_cache.val) : _power_a_cache.val[i].v = NaN

AllFilesSkipped == \A i \in 1..Len(files) : ~files[i].ok

\* C3: when no file is usable (none exists or every one is skipped),
\* load_all_data returns (None, None, None) and every query operation answers
\* 'No data available'.
C3_NoDataRefused ==
    AllFilesSkipped =>
        /\ ret.outcome # "not called" => ret = Returned(NoneFrame, NoneSeries, NoneSeries)
        /\ resp.op # "none" => resp.status = "No data available"

\* a handler has answered over a directory whose files were all skipped
C3_Witness ==
    /\ files # <<>>
    /\ AllFilesSkipped
    /\ resp.op = "distribution"
    /\ resp.status = "No data available"

\* C4: when data was loaded but a building has no matching column (its
\* PowerSeries is None), every query operation returns a normal result.
C4_AbsentSeriesTolerated ==
    (/\ resp.op # "none"
     /\ ret.outcome = "returned"
     /\ ret.df.some
     /\ ~ret.pa.some \/ ~ret.pb.some) => resp.status = "ok"

---------------------------------------------------------------------------
(* Properties of ingestion (specification SpecIngest) *)

IsOk(f) == f.ok
LoadedFiles == SelectSeq(files, IsOk)

CountRows(rows, Test(_)) == Cardinality({i \in 1..Len(rows) : Test(rows[i])})

IsEndOfDay(r) == r.time = "24:00:00"
Parseable(r) == r.time \in {"00:00:00", "12:00:00"}
Unparsable(r) == ~IsEndOfDay(r) /\ ~Parseable(r)

\* the rows a loaded file gives the combined table
RowsGiven(f) ==
    IF f.dt THEN Len(f.rows) - CountRows(f.rows, IsEndOfDay) - CountRows(f.rows, Unparsable)
    ELSE Len(f.rows)

RECURSIVE TotalGiven(_)
TotalGiven(fs) == IF fs = <<>> THEN 0 ELSE RowsGiven(Head(fs)) + TotalGiven(Tail(fs))

RowSet(rows) == {rows[i] : i \in 1..Len(rows)}

\* C5: a file whose load raises contributes nothing and does not end the run:
\* the per-file tables are those of exactly the files that loaded, in discovery
\* order, the combined table holds their rows with a timestamp and no others,
\* and the call returns.
C5_FailedFilesSkipped ==
    (pipelineRuns >= 1 /\ ~cacheFiles.present) =>
        /\ Len(all_data) = Len(LoadedFiles)
        /\ \A j \in 1..Len(all_data) : all_data[j] = load_single_file(LoadedFiles[j]).val
        /\ (\A j \in 1..Len(LoadedFiles) : LoadedFiles[j].dt) => ret.outcome = "returned"
        /\ ret.df.some =>
              /\ RowSet(ret.df.val.rows) =
                    UNION {{r \in RowSet(all_data[j].rows) : r.key.k # "NaT"} : j \in 1..Len(all_data)}
              /\ Len(ret.df.val.rows) = TotalGiven(LoadedFiles)

\* the first file failed to load and the rows of the second are in the combined table
C5_Witness ==
    /\ pipelineRuns >= 1
    /\ ~cacheFiles.present
    /\ Len(files) = 2
    /\ ~files[1].ok
    /\ files[2].ok
    /\ ret.outcome = "returned"
    /\ ret.df.some
    /\ Len(ret.df.val.rows) >= 1

\* C6: the CombinedSeries is sorted non-decreasing by timestamp, whatever the
\* row order of the per-file tables.
C6_SortedByTimestamp ==
    _data_cache.some =>
        \A i, j \in 1..Len(_data_cache.val.rows) :
            i < j => _data_cache.val.rows[i].key.t <= _data_cache.val.rows[j].key.t

\* a file whose rows came later-first has been assembled
C6_Witness ==
    /\ _data_cache.some
    /\ Len(all_data) >= 1
    /\ Len(all_data[1].rows) = 2
    /\ all_data[1].rows[1].key = Timestamp(48)
    /\ all_data[1].rows[2].key = Timestamp(36)
    /\ _data_cache.val.rows[1].key = Timestamp(36)

\* C7: every row of the CombinedSeries is keyed by a parsed timestamp: neither
\* a row whose date+time failed to parse nor a row of a file without Date or
\* Time columns is in the combined table.
C7_RowsHaveTimestamps ==
    _data_cache.some =>
        \A i \in 1..Len(_data_cache.val.rows) : _data_cache.val.rows[i].key.k = "ts"

\* C8: for a loaded file with Date and Time, no "24:00:00" row is in its output
\* table or in the CombinedSeries and every other row that parses is kept: the
\* table has the file's rows less the "24:00:00" rows, each parseable row is in
\* both under its timestamp, and the combined row count is the rows of the
\* loaded files less their "24:00:00" rows and their unparsable rows.
C8_EndOfDayRowsExcluded ==
    (pipelineRuns >= 1 /\ ~cacheFiles.present /\ Len(all_data) = Len(LoadedFiles)) =>
        /\ \A j \in 1..Len(LoadedFiles) :
              LET f == LoadedFiles[j]
                  kept == {i \in 1..Len(f.rows) : ~IsEndOfDay(f.rows[i])}
              IN f.dt =>
                    /\ Len(all_data[j].rows) = Cardinality(kept)
                    /\ \A r \in RowSet(f.rows) :
                          Parseable(r) =>
                              LET row == [key |-> Timestamp(r.date * 24 + (IF r.time = "12:00:00" THEN 12 ELSE 0)),
                                          cols |-> f.cols, a |-> r.a, b |-> r.b]
                              IN /\ row \in RowSet(all_data[j].rows)
                                 /\ ret.df.some => row \in RowSet(ret.df.val.rows)
                    /\ \A t \in RowSet(all_data[j].rows) :
                          \/ t.key = NaT
                          \/ \E r \in RowSet(f.rows) :
                                Parseable(r) /\ t.key.t = r.date * 24 + (IF r.time = "12:00:00" THEN 12 ELSE 0)
        /\ ret.df.some => Len(ret.df.val.rows) = TotalGiven(LoadedFiles)

\* a file with a "24:00:00" row and a row that parses has been assembled
C8_Witness ==
    /\ ret.outcome = "returned"
    /\ ~cacheFiles.present
    /\ ret.df.some
    /\ Len(files) = 1
    /\ files[1].ok
    /\ files[1].dt
    /\ Len(files[1].rows) = 2
    /\ IsEndOfDay(files[1].rows[1])
    /\ Parseable(files[1].rows[2])
    /\ Len(ret.df.val.rows) = 1

---------------------------------------------------------------------------
(* Properties of the outlier cleaner (specification SpecClean) *)

\* x > min(mean + 3*std, 50) over the non-missing values vals; a lone value is
\* its own mean with nothing above it, so it exceeds the ceiling only above 50
ExceedsCeiling(x, vals) ==
    LET n == Len(vals)
        S == SumSeq(vals)
        dev2 == SumSeq([i \in 1..n |-> (n * vals[i] - S) * (n * vals[i] - S)])
    IN \/ x > 50
       \/ /\ n >= 2
          /\ n * x - S > 0
          /\ (n * x - S) * (n * x - S) * (n - 1) > 9 * dev2

\* C9: clean_power_data replaces exactly the values above min(mean + 3*std, 50)
\* by the missing marker and leaves every other value as it was, for every
\* input series, a series of one non-missing value included.
C9_ExactlyOutliersRemoved ==
    cleaned.some =>
        LET vals == SelectSeq(series, IsNumber)
        IN /\ Len(cleaned.val) = Len(series)
           /\ \A i \in 1..Len(series) :
                 /\ (IsNumber(series[i]) /\ ~ExceedsCeiling(series[i], vals)) =>
                        cleaned.val[i] = series[i]
                 /\ (IsNumber(series[i]) /\ Len(vals) >= 2 /\ ExceedsCeiling(series[i], vals)) =>
                        cleaned.val[i] = NaN
                 /\ ~IsNumber(series[i]) => cleaned.val[i] = NaN

---------------------------------------------------------------------------
(* Properties of column-name normalization (specification SpecNormalize) *)

EndsWithDigit(s) == s # <<>> /\ IsDigit(s[Len(s)])

\* C10: normalize_column_name is idempotent, a name with a numeric suffix has
\* the key of the name without it, and Date and Time come back without a
\* trailing space.
C10_NormalizeIdempotent ==
    /\ Len(normalized) = 2 => normalized[2] = normalized[1]
    /\ ~EndsWithDigit(Strip(colName)) =>
          normalize_column_name(colName \o <<" ", "1">>) = normalize_column_name(colName)
    /\ (Len(normalized) >= 1 /\ Strip(colName) = NameDate) => normalized[1] = NameDate
    /\ (Len(normalized) >= 1 /\ Strip(colName) = NameTime) => normalized[1] = NameTime

---------------------------------------------------------------------------
(* Properties of the result payloads (specification SpecSummary) *)

\* a reading lies in the month asked for and on a date from start_date to
\* end_date, both dates whole
InWindow(e, args) ==
    /\ args.month # 0 => MonthOf(e.key.t) = args.month
    /\ args.start_date # 0 => DateOf(e.key.t) >= args.start_date
    /\ args.end_date # 0 => DateOf(e.key.t) <= args.end_date

Windowed(s, args) ==
    LET Kept(e) == InWindow(e, args)
    IN SelectSeq(s, Kept)

\* C11: the date-range filter keeps a reading exactly when its date d has
\* start_date <= d <= end_date, at any time of day on end_date: the data
\* quality report counts those readings and the summary averages them.
C11_DateRangeInclusive ==
    /\ (resp.op = "data-quality" /\ resp.status = "ok") =>
          /\ resp.body.tourA.totalPoints = Len(Windowed(_power_a_cache.val, resp.args))
          /\ resp.body.tourB.validPoints = Len(dropna(Windowed(_power_b_cache.val, resp.args)))
    /\ (resp.op = "summary" /\ resp.status = "ok") =>
          resp.body.tourA.avgPower = MeanOrZero(Values(dropna(Windowed(_power_a_cache.val, resp.args))))

RatiosOf(m) == {m.loadFactor, m.peakToAvgRatio, m.dataCoverage}

\* the ratios of one building's metrics are 0 where the filtered series gives
\* their denominator nothing or zero
ZeroRatios(m, s, args) ==
    LET power == Values(dropna(Masked("summary", s, args)))
    IN /\ (power = <<>> \/ MaxOf(power) = 0) => m.loadFactor = 0
       /\ (power = <<>> \/ SumSeq(power) = 0) => m.peakToAvgRatio = 0
       /\ Masked("summary", s, args) = <<>> => m.dataCoverage = 0
       /\ power = <<>> => m.dataCoverage = 0

\* C12: for every filtered series the summary's loadFactor, peakToAvgRatio and
\* dataCoverage and the data quality report's completeness and validity are
\* computed without an error, are finite, and are 0 when their denominator is
\* zero or undefined.
C12_RatiosFiniteOrZero ==
    /\ resp.op \in {"summary", "data-quality"} => resp.status = "ok"
    /\ resp.op = "summary" =>
          /\ NaN \notin RatiosOf(resp.body.tourA) \cup RatiosOf(resp.body.tourB)
          /\ ZeroRatios(resp.body.tourA, _power_a_cache.val, resp.args)
          /\ ZeroRatios(resp.body.tourB, _power_b_cache.val, resp.args)
    /\ resp.op = "data-quality" =>
          \A q \in {resp.body.tourA, resp.body.tourB} :
              /\ q.completeness # NaN
              /\ q.validity # NaN
              /\ q.totalPoints = 0 => (q.completeness = 0 /\ q.validity = 0)
              /\ q.nonZeroPoints = 0 => q.validity = 0

\* the summary of an all-zero series beside an all-missing one has been given
C12_Witness ==
    /\ resp.op = "summary"
    /\ resp.status = "ok"
    /\ resp.body.tourA.dataCoverage = 1000
    /\ resp.body.tourA.maxPower = 0
    /\ resp.body.tourA.loadFactor = 0
    /\ Len(_power_b_cache.val) >= 2
    /\ dropna(_power_b_cache.val) = <<>>
    /\ resp.body.tourB.dataCoverage = 0

---------------------------------------------------------------------------
(* Properties of the bucketed results (specification SpecBuckets) *)

\* the non-missing readings of a cached series that a handler's filter keeps
\* and that fall in one group
ReadingsIn(op, s, args, InGroup(_)) ==
    LET Member(e) == Mask(op, e.key, args) /\ e.v # NaN /\ InGroup(e.key.t)
    IN Values(SelectSeq(s, Member))

\* C13: the hourly pattern has exactly 24 entries, for the hours 0..23 in
\* order, and the weekly pattern exactly 7, for the day indexes 0..6 in order;
\* an hour or day without a non-missing reading in the window reports 0 for
\* that building, any other the mean of its readings.
C13_FixedBuckets ==
    /\ (resp.op = "hourly" /\ resp.status = "ok") =>
          /\ Len(resp.body) = 24
          /\ \A i \in 1..24 :
                LET AtHour(t) == HourOfDay(t) = i - 1
                    a == ReadingsIn("hourly", _power_a_cache.val, resp.args, AtHour)
                    b == ReadingsIn("hourly", _power_b_cache.val, resp.args, AtHour)
                IN /\ resp.body[i].hour = i - 1
                   /\ resp.body[i].tourA = (IF a = <<>> THEN 0 ELSE Round(100 * SumSeq(a), Len(a)))
                   /\ resp.body[i].tourB = (IF b = <<>> THEN 0 ELSE Round(100 * SumSeq(b), Len(b)))
    /\ (resp.op = "weekly" /\ resp.status = "ok") =>
          /\ Len(resp.body) = 7
          /\ \A i \in 1..7 :
                LET OnDay(t) == DayOfWeek(t) = i - 1
                    a == ReadingsIn("weekly", _power_a_cache.val, resp.args, OnDay)
                    b == ReadingsIn("weekly", _power_b_cache.val, resp.args, OnDay)
                IN /\ resp.body[i].dayIndex = i - 1
                   /\ resp.body[i].tourA = (IF a = <<>> THEN 0 ELSE Round(100 * SumSeq(a), Len(a)))
                   /\ resp.body[i].tourB = (IF b = <<>> THEN 0 ELSE Round(100 * SumSeq(b), Len(b)))
    /\ resp.op \in {"hourly", "weekly"} => resp.status = "ok"

\* an hourly pattern in which building A has readings at noon and none at
\* midnight, where building B has some
C13_Witness ==
    /\ resp.op = "hourly"
    /\ resp.status = "ok"
    /\ resp.body[13].tourA > 0
    /\ resp.body[1].tourA = 0
    /\ resp.body[1].tourB > 0

\* the buckets from that of the first row the filter keeps to that of the last
BucketSpan(op, s, args, freq) ==
    LET kept == {i \in 1..Len(s) : Mask(op, s[i].key, args)}
    IN IF kept = {} THEN {}
       ELSE LET lo == CHOOSE i \in kept : \A j \in kept : s[i].key.t <= s[j].key.t
                hi == CHOOSE i \in kept : \A j \in kept : s[i].key.t >= s[j].key.t
            IN BucketOf(freq, s[lo].key.t)..BucketOf(freq, s[hi].key.t)

\* the buckets of a result in order, each with the mean of a building's
\* readings in it or 0 without one, and every bucket of either building there
BucketsAreUnion(op, data, Name(_), freq) ==
    LET a == _power_a_cache.val
        b == _power_b_cache.val
    IN /\ \A i \in 1..(Len(data) - 1) : Name(data[i]) < Name(data[i + 1])
       /\ {Name(data[i]) : i \in 1..Len(data)} =
             BucketSpan(op, a, resp.args, freq) \cup BucketSpan(op, b, resp.args, freq)
       /\ \A i \in 1..Len(data) :
             LET InBucket(t) == BucketOf(freq, t) = Name(data[i])
                 ra == ReadingsIn(op, a, resp.args, InBucket)
                 rb == ReadingsIn(op, b, resp.args, InBucket)
             IN /\ data[i].tourA = (IF ra = <<>> THEN 0 ELSE Round(100 * SumSeq(ra), Len(ra)))
                /\ data[i].tourB = (IF rb = <<>> THEN 0 ELSE Round(100 * SumSeq(rb), Len(rb)))
       /\ \A s \in {a, b} : \A i \in 1..Len(s) :
             (Mask(op, s[i].key, resp.args) /\ s[i].v # NaN) =>
                 \E j \in 1..Len(data) : Name(data[j]) = BucketOf(freq, s[i].key.t)

---------------------------------------------------------------------------
(* Properties of the comparison (specification SpecSummary) *)

\* the readings of the two buildings at the timestamps of the window where
\* neither is missing
CommonPoints(args) ==
    LET a == dropna(Masked("comparison", _power_a_cache.val, args))
        b == dropna(Masked("comparison", _power_b_cache.val, args))
    IN [a |-> Values(Aligned(a, b)), b |-> Values(Aligned(b, a))]

IsConstant(vs) == \A i, j \in 1..Len(vs) : vs[i] = vs[j]

\* the two buildings have their readings of the window at the same timestamps
SameTimestamps(op, args) ==
    KeysOf(dropna(Masked(op, _power_a_cache.val, args)))
        = KeysOf(dropna(Masked(op, _power_b_cache.val, args)))

\* C15: the comparison answers 'Insufficient data for comparison' whenever,
\* after the filter and the intersection of the non-missing timestamps, a
\* side has no point: also for two non-empty series that share no timestamp.
C15_InsufficientWithoutCommonPoint ==
    (resp.op = "comparison" /\ resp.status # "No data available"
        /\ CommonPoints(resp.args).a = <<>>)
    => resp.status = "Insufficient data for comparison"

\* C16: for two identical series that are not constant the comparison gives a
\* correlation of 1.0 and 0 for the mean difference, the peak difference, the
\* largest hourly difference and the counts and percentages of the time each
\* building is strictly higher.
C16_IdenticalSeries ==
    (/\ resp.op = "comparison"
     /\ resp.status # "No data available"
     /\ SameTimestamps("comparison", resp.args)
     /\ CommonPoints(resp.args).a = CommonPoints(resp.args).b
     /\ ~IsConstant(CommonPoints(resp.args).a))
    => /\ resp.status = "ok"
       /\ resp.body.correlation.value = 1000
       /\ resp.body.averages.difference = 0
       /\ resp.body.averages.differencePercent = 0
       /\ resp.body.peaks.difference = 0
       /\ resp.body.peaks.differencePercent = 0
       /\ resp.body.hourlyComparison.maxDifferenceValue = 0
       /\ resp.body.timeComparison.tourAHigherCount = 0
       /\ resp.body.timeComparison.tourBHigherCount = 0
       /\ resp.body.timeComparison.tourAHigherPercent = 0
       /\ resp.body.timeComparison.tourBHigherPercent = 0

\* the comparison of two identical series of three readings, not all equal
C16_Witness ==
    /\ resp.op = "comparison"
    /\ resp.status = "ok"
    /\ SameTimestamps("comparison", resp.args)
    /\ CommonPoints(resp.args).a = CommonPoints(resp.args).b
    /\ ~IsConstant(CommonPoints(resp.args).a)
    /\ resp.body.dataPoints.total = 3
    /\ resp.body.correlation.value = 1000

\* building A reads a and building B reads b at every timestamp of the
\* window, with 0 < a < b
ConstantPair(op, args) ==
    LET a == Values(dropna(Masked(op, _power_a_cache.val, args)))
        b == Values(dropna(Masked(op, _power_b_cache.val, args)))
    IN /\ SameTimestamps(op, args)
       /\ a # <<>>
       /\ IsConstant(a)
       /\ IsConstant(b)
       /\ 0 < a[1]
       /\ a[1] < b[1]

\* C17: with building A constant at a and building B constant at b on the
\* same timestamps, 0 < a < b, the summary reports avgPower a and b and a
\* loadFactor of 1.0 for both; the comparison gives a result, not an error,
\* with averages.moreEfficient 'Tour A' and a correlation of 0 or undefined.
C17_ConstantSeries ==
    /\ (resp.op = "summary" /\ resp.status # "No data available"
            /\ ConstantPair("summary", resp.args)) =>
          /\ resp.status = "ok"
          /\ resp.body.tourA.avgPower
                = 100 * Values(dropna(Masked("summary", _power_a_cache.val, resp.args)))[1]
          /\ resp.body.tourB.avgPower
                = 100 * Values(dropna(Masked("summary", _power_b_cache.val, resp.args)))[1]
          /\ resp.body.tourA.loadFactor = 1000
          /\ resp.body.tourB.loadFactor = 1000
    /\ (resp.op = "comparison" /\ resp.status # "No data available"
            /\ ConstantPair("comparison", resp.args)) =>
          /\ resp.status = "ok"
          /\ resp.body.averages.moreEfficient = "Tour A"
          /\ resp.body.correlation.value \in {0, NaN}

\* the comparison of a building constant at 10 with one constant at 20 over
\* several timestamps: the correlation is undefined
C17_Witness ==
    /\ resp.op = "comparison"
    /\ resp.status = "ok"
    /\ ConstantPair("comparison", resp.args)
    /\ resp.body.dataPoints.total >= 2
    /\ resp.body.averages.tourA = 1000
    /\ resp.body.averages.tourB = 2000
    /\ resp.body.correlation.value = NaN

---------------------------------------------------------------------------
(* Properties of the fast path (specification SpecFastPath) *)

\* the answer of a query handler that load_all_data gave r
Answer(op, r, args) ==
    LET status == HandlerStatus(op, r, args)
    IN [status |-> status,
        body |-> IF status = "ok" THEN Payload(op, r.df.val, r.pa, r.pb, args) ELSE NoBody]

\* one setting of every filter, and none
EveryFilter ==
    {NoArgs, Args(3, 0, 0, 0 - 1, 0, "daily", 30), Args(0, 2, 0, 0 - 1, 0, "hourly", 30),
     Args(0, 0, 1, 0 - 1, 0, "weekly", 30), Args(0, 0, 0, 6, 2024, "monthly", 30)}

\* C18: the series and the index that the fast path reads from the processed
\* files give every query, under every filter, the answer it has on the
\* series and the frame rebuilt from the source files those files came from.
C18_FastPathEquivalent ==
    (cacheFiles.present /\ ret.outcome = "returned") =>
        \A o \in Pipeline(files, NoneFrame, NoneSeries, NoneSeries, 1) :
            (o.ret.outcome = "returned" /\ o.pa.some /\ o.pb.some
                /\ Persisted(o.pa, o.pb) = cacheFiles)
            => \A op \in Ops \cup {"data-info"} : \A args \in EveryFilter :
                   Answer(op, ret, args) = Answer(op, o.ret, args)

---------------------------------------------------------------------------
(* Properties of get_data_files (specification SpecFiles) *)

RECURSIVE FilesUnder(_, _)
\* the paths of the files below a directory, at any depth
FilesUnder(root, dir) ==
    IF ~dir.exists THEN {}
    ELSE {join(root, f) : f \in dir.files}
            \cup (IF dir.dirs = <<>> THEN {}
                  ELSE FilesUnder(join(root, dir.dirs[1].name), dir.dirs[1]))

\* C19: get_data_files returns exactly the files under the root, at any depth,
\* whose name ends in .csv or .xlsx, each once, in increasing lexicographic
\* order of their paths: the one such list, on every run; a root that does not
\* exist or holds no file gives the empty list.
C19_SortedDataFiles ==
    data_files.some =>
        LET found == data_files.val
        IN /\ {found[i] : i \in 1..Len(found)}
                 = {p \in FilesUnder(data_dir.name, data_dir) :
                        endswith(p, DotCsv) \/ endswith(p, DotXlsx)}
           /\ \A i \in 1..(Len(found) - 1) : Less(found[i], found[i + 1])
           /\ FilesUnder(data_dir.name, data_dir) = {} => found = <<>>

\* a list of three files, one of them two directories down, another in the
\* root, found beside a file that is no data file
C19_Witness ==
    /\ data_files.some
    /\ Len(data_files.val) = 3
    /\ \E i \in 1..3 : data_files.val[i] = join(join(join(RootName, SubName), SubSubName), <<97>> \o DotCsv)
    /\ \E i \in 1..3 : data_files.val[i] = join(RootName, <<100>> \o DotCsv)
    /\ Cardinality(FilesUnder(data_dir.name, data_dir)) > 3

---------------------------------------------------------------------------
(* Properties of the histogram (specification SpecHistogram) *)

\* the bins of the histogram are the sample.bins equal parts of [lo, hi], lo
\* and hi in halves: the reported edges are the exact ones rounded to 2
\* places, bin k counts the values from its lower edge up to its upper edge,
\* which only the last bin includes, and the counts sum to the number of values
BinsSpan(lo, hi) ==
    LET power == sample.power
        bins == sample.bins
        hist == histogram.val
        Edge(i) == lo * bins + i * (hi - lo)
        Within(k, x) == /\ Edge(k - 1) <= 2 * bins * x
                        /\ IF k = bins THEN 2 * bins * x <= Edge(k) ELSE 2 * bins * x < Edge(k)
        RECURSIVE Total(_)
        Total(k) == IF k = 0 THEN 0 ELSE hist[k].count + Total(k - 1)
    IN /\ Len(hist) = bins
       /\ \A k \in 1..Len(hist) :
             /\ hist[k].binStart = Round(100 * Edge(k - 1), 2 * bins)
             /\ hist[k].binEnd = Round(100 * Edge(k), 2 * bins)
             /\ hist[k].count = Cardinality({j \in 1..Len(power) : Within(k, power[j])})
       /\ \A j \in 1..Len(power) :
             Cardinality({k \in 1..bins : Within(k, power[j])}) = 1
       /\ Total(Len(hist)) = Len(power)

\* the hundred values 0..99 in 10 bins: 10 values a bin, edges at the
\* multiples of 9.9
HundredInTen ==
    (sample.power = Hundred /\ sample.bins = 10) =>
        /\ Len(histogram.val) = 10
        /\ \A k \in 1..Len(histogram.val) :
              /\ histogram.val[k].count = 10
              /\ histogram.val[k].binStart = 990 * (k - 1)
              /\ histogram.val[k].binEnd = 990 * k

\* C20 as stated: the histogram of the non-missing filtered values has exactly
\* `bins` bins of equal width (max - min) / bins spanning [min, max], each
\* value counted in exactly one bin, the last including max, so that the
\* counts sum to the number of values; the values 0..99 in 10 bins give 10 a
\* bin and edges at the multiples of 9.9.
C20_BinsSpanMinToMax ==
    histogram.some =>
        /\ IF sample.power = <<>> THEN Len(histogram.val) = sample.bins
           ELSE BinsSpan(2 * MinOf(sample.power), 2 * MaxOf(sample.power))
        /\ HundredInTen

\* C20 amended: with at least one value, the histogram has exactly `bins`
\* bins of equal width spanning [min, max], or [min - 0.5, max + 0.5] when all
\* the values are equal, each value counted in exactly one bin, the last
\* including its upper edge, and the counts sum to the number of values;
\* without a value the histogram is empty; the values 0..99 in 10 bins give
\* 10 a bin and edges at the multiples of 9.9.
C20_BinsSpanRange ==
    histogram.some =>
        /\ IF sample.power = <<>> THEN histogram.val = <<>>
           ELSE IF MinOf(sample.power) = MaxOf(sample.power)
           THEN BinsSpan(2 * MinOf(sample.power) - 1, 2 * MaxOf(sample.power) + 1)
           ELSE BinsSpan(2 * MinOf(sample.power), 2 * MaxOf(sample.power))
        /\ HundredInTen

\* the histogram of 0..99 in 10 bins, the last of which counts the maximum
C20_Witness ==
    /\ histogram.some
    /\ sample.power = Hundred
    /\ sample.bins = 10
    /\ histogram.val[10].count = 10
    /\ histogram.val[10].binEnd = 9900

---------------------------------------------------------------------------
(* Properties of the assembled table under overlapping files *)

RowsUnder(rows, key) == Cardinality({i \in 1..Len(rows) : rows[i].key = key})

RECURSIVE RowsUnderIn(_, _)
\* the rows the per-file tables hold under one index value
RowsUnderIn(tables, key) ==
    IF tables = <<>> THEN 0
    ELSE RowsUnder(Head(tables).rows, key) + RowsUnderIn(Tail(tables), key)

KeysIn(tables) == UNION {{tables[j].rows[i].key : i \in 1..Len(tables[j].rows)} : j \in 1..Len(tables)}

\* C21 as stated: after load_all_data no two rows of the combined table share
\* a timestamp, whatever the files, overlapping ones included.
C21_OneRowPerTimestamp ==
    _data_cache.some =>
        \A i, j \in 1..Len(_data_cache.val.rows) :
            _data_cache.val.rows[i].key = _data_cache.val.rows[j].key => i = j

\* C21 amended: after load_all_data the combined table holds, under each
\* timestamp, as many rows as the tables of the loaded files hold under it: no
\* two rows share a timestamp unless the loaded files give that timestamp more
\* than once, and then each of their rows is kept.
C21_OneRowPerFileRow ==
    (_data_cache.some /\ ~cacheFiles.present) =>
        \A key \in KeysIn(all_data) \ {NaT} :
            RowsUnder(_data_cache.val.rows, key) = RowsUnderIn(all_data, key)

\* two files with a row for the same timestamp have been assembled
C21_Witness ==
    /\ _data_cache.some
    /\ ~cacheFiles.present
    /\ Len(all_data) = 2
    /\ Len(all_data[1].rows) = 1
    /\ Len(all_data[2].rows) = 1
    /\ all_data[1].rows[1].key = Timestamp(48)
    /\ all_data[2].rows[1].key = Timestamp(48)
    /\ Len(_data_cache.val.rows) = 2

HasTimestamp(r) == r.key.k = "ts"

RECURSIVE TotalWithTimestamp(_)
\* the rows of the per-file tables that have a valid timestamp
TotalWithTimestamp(tables) ==
    IF tables = <<>> THEN 0
    ELSE CountRows(Head(tables).rows, HasTimestamp) + TotalWithTimestamp(Tail(tables))

RECURSIVE InKeyOrder(_)
\* the rows in order of key, rows of equal key in the order they have in rows
InKeyOrder(rows) ==
    IF rows = <<>> THEN <<>>
    ELSE LET m == CHOOSE i \in 1..Len(rows) :
                      /\ \A j \in 1..Len(rows) : rows[i].key.t <= rows[j].key.t
                      /\ \A j \in 1..(i - 1) : rows[j].key.t > rows[i].key.t
         IN <<rows[m]>> \o InKeyOrder(RemoveAt(rows, m))

---------------------------------------------------------------------------
(* Properties of channel selection (specification SpecColumns) *)

\* the main-meter token of the building asked for
MainMeter == IF columns.tour \in {"A", "a"} THEN "tour_a_(tgbt_d14)" ELSE "tour_b_(tgbt_d5)"

PassesFourTests(c) == c.tok = MainMeter /\ c.kwsys /\ c.avg /\ ~c.kvar

\* C23: get_power_column returns the first column, in column order, whose
\* name contains the building's main-meter token, 'kw sys' and 'avg' and does
\* not contain 'kvar'; None when no column does; never a column failing a test.
C23_FirstMatchingColumn ==
    power_col.called =>
        LET cols == columns.cols
            passing == {i \in 1..Len(cols) : PassesFourTests(cols[i])}
        IN /\ passing = {} => power_col.pos = 0
           /\ passing # {} =>
                 /\ power_col.pos \in passing
                 /\ \A i \in passing : power_col.pos <= i
           /\ power_col.pos # 0 => PassesFourTests(cols[power_col.pos])

\* the reactive-power column of the building came first and was passed over
C23_Witness ==
    /\ power_col.called
    /\ Len(columns.cols) = 2
    /\ columns.cols[1] = ColAKvar
    /\ columns.cols[2] = ColA
    /\ columns.tour = "A"
    /\ power_col.pos = 2

---------------------------------------------------------------------------
(* Properties of concurrent loading (specification SpecThreads) *)

\* C24: with the cache empty and several handlers calling load_all_data
\* at once, every call that returns a CombinedSeries returns with it the
\* PowerSeries-A and PowerSeries-B a sequential load returns: none sees the
\* CombinedSeries held while a PowerSeries the load populates is still unset.
C24_ConcurrentLoadsAgree ==
    \A t \in DOMAIN threads :
        (AtLine(t, "done") /\ threads[t].ret.outcome = "returned" /\ threads[t].ret.df.some) =>
            /\ threads[t].ret.pa = PowerCache(threads[t].ret.df.val, "A")
            /\ threads[t].ret.pb = PowerCache(threads[t].ret.df.val, "B")

---------------------------------------------------------------------------
(* Properties of the quartiles (specification SpecHistogram) *)

\* C25: for a non-empty series the reported quartiles are in the order
\* min <= lowerWhisker <= Q1 <= Q2 <= Q3 <= upperWhisker <= max, where
\* lowerWhisker is max(min, Q1 - 1.5 IQR), upperWhisker is min(max, Q3 + 1.5 IQR)
\* and IQR = Q3 - Q1 is not negative.
C25_QuartilesInOrder ==
    (quartiles.some /\ sample.power # <<>>) =>
        LET q == quartiles.val
            lo == MinOf(sample.power)
            hi == MaxOf(sample.power)
            Q1 == percentile(sample.power, 25)
            Q3 == percentile(sample.power, 75)
            below == Q1 - (3 * (Q3 - Q1)) \div 2
            above == Q3 + (3 * (Q3 - Q1)) \div 2
        IN /\ ~q.empty
           /\ 100 * lo <= q.lowerWhisker
           /\ q.lowerWhisker <= q.q1
           /\ q.q1 <= q.q2
           /\ q.q2 <= q.q3
           /\ q.q3 <= q.upperWhisker
           /\ q.upperWhisker <= 100 * hi
           /\ q.iqr >= 0
           /\ q.iqr = Round(100 * (Q3 - Q1), 16)
           /\ q.lowerWhisker = Round(100 * (IF below > 16 * lo THEN below ELSE 16 * lo), 16)
           /\ q.upperWhisker = Round(100 * (IF above < 16 * hi THEN above ELSE 16 * hi), 16)

\* a series with a reading below Q1 - 1.5 IQR: the lower whisker is above the minimum
C25_Witness ==
    /\ quartiles.some
    /\ sample.power = <<0 - 20, 9, 10, 10, 11, 40>>
    /\ quartiles.val.lowerWhisker > 100 * (0 - 20)
    /\ quartiles.val.upperWhisker < 100 * 40
    /\ quartiles.val.q1 < quartiles.val.q3

---------------------------------------------------------------------------
(* Properties of the peak analysis (specification SpecPeaks) *)

ReadingsAt(h) == SelectSeq(peak_input.power, LAMBDA e : HourOfDay(e.key.t) = h)

HoursWithData == {HourOfDay(peak_input.power[i].key.t) : i \in 1..Len(peak_input.power)}

\* the mean of hour h is at most that of hour g
MeanAtMost(h, g) ==
    SumSeq(Values(ReadingsAt(h))) * Len(ReadingsAt(g)) <= SumSeq(Values(ReadingsAt(g))) * Len(ReadingsAt(h))

ListedHours(list) == {list[k].hour : k \in 1..Len(list)}

\* C26: peakHours lists the min(N, hours with data) hours of largest hourly
\* mean in descending order of mean, offPeakHours as many hours of smallest
\* mean in ascending order; no hour is twice in a list, and every hour outside
\* peakHours has a mean <= every mean inside it.
C26_PeakHoursAreTheLargest ==
    peaks.some =>
        LET pk == peaks.val.peakHours
            off == peaks.val.offPeakHours
            count == IF peak_input.top_n <= Cardinality(HoursWithData)
                     THEN peak_input.top_n ELSE Cardinality(HoursWithData)
        IN /\ Len(pk) = count
           /\ Len(off) = count
           /\ ListedHours(pk) \subseteq HoursWithData
           /\ ListedHours(off) \subseteq HoursWithData
           /\ Cardinality(ListedHours(pk)) = Len(pk)
           /\ Cardinality(ListedHours(off)) = Len(off)
           /\ \A i, j \in 1..Len(pk) : i < j => MeanAtMost(pk[j].hour, pk[i].hour)
           /\ \A i, j \in 1..Len(off) : i < j => MeanAtMost(off[i].hour, off[j].hour)
           /\ \A h \in HoursWithData \ ListedHours(pk) : \A g \in ListedHours(pk) : MeanAtMost(h, g)
           /\ \A h \in HoursWithData \ ListedHours(off) : \A g \in ListedHours(off) : MeanAtMost(g, h)
           /\ \A k \in 1..Len(pk) :
                 pk[k].avgPower = Round(100 * SumSeq(Values(ReadingsAt(pk[k].hour))),
                                        Len(ReadingsAt(pk[k].hour)))

\* four hours with data and three different means, the two largest asked for
C26_Witness ==
    /\ peaks.some
    /\ peak_input.top_n = 2
    /\ Cardinality(HoursWithData) = 4
    /\ Len(peaks.val.peakHours) = 2
    /\ peaks.val.peakHours[1].avgPower = 2000
    /\ peaks.val.peakHours[2].avgPower = 1500
    /\ peaks.val.offPeakHours[1].avgPower = 1000
    /\ peaks.val.peakHours[2].hour = 0

---------------------------------------------------------------------------
(* Properties of the data-quality report (specification SpecQuality) *)

LowCompleteness == "Low data completeness (< 50%)"

ManyZeros == "Many zero readings (> 50%)"

\* C27 as stated: the issues hold the low-completeness flag if and only if
\* valid/total*100 < 50 and the many-zero-readings flag if and only if
\* nonZero/total*100 < 50; for an empty window both percentages are 0 (and both
\* flags are there).
C27_FlagsBelowHalf ==
    quality.some =>
        LET q == quality.val.report
        IN IF q.totalPoints = 0
           THEN /\ q.completeness = 0
                /\ q.validity = 0
                /\ quality.val.issues = {LowCompleteness, ManyZeros}
           ELSE /\ LowCompleteness \in quality.val.issues <=> 100 * q.validPoints < 50 * q.totalPoints
                /\ ManyZeros \in quality.val.issues <=> 100 * q.nonZeroPoints < 50 * q.totalPoints

\* C27 amended: the issues hold the low-completeness flag if and only if the
\* reported completeness, valid/total*100 rounded to 2 places, is < 50, and the
\* many-zero-readings flag if and only if the reported validity,
\* nonZero/total*100 rounded to 2 places, is < 50; so a ratio below one half is
\* flagged unless it rounds to 50.00, and for an empty window both percentages
\* are 0 and both flags are there.
C27_FlagsBelowHalfAsReported ==
    quality.some =>
        LET q == quality.val.report
        IN /\ LowCompleteness \in quality.val.issues <=> q.completeness < 5000
           /\ ManyZeros \in quality.val.issues <=> q.validity < 5000
           /\ quality.val.issues \subseteq {LowCompleteness, ManyZeros}
           /\ q.totalPoints = 0 => (q.completeness = 0 /\ q.validity = 0)
           /\ q.totalPoints > 0 =>
                 /\ q.completeness = Round(10000 * q.validPoints, q.totalPoints)
                 /\ q.validity = Round(10000 * q.nonZeroPoints, q.totalPoints)
                 /\ 200 * q.validPoints < 99 * q.totalPoints => LowCompleteness \in quality.val.issues
                 /\ 2 * q.validPoints >= q.totalPoints => LowCompleteness \notin quality.val.issues
                 /\ 200 * q.nonZeroPoints < 99 * q.totalPoints => ManyZeros \in quality.val.issues
                 /\ 2 * q.nonZeroPoints >= q.totalPoints => ManyZeros \notin quality.val.issues

\* a window with 10000 readings of 20001 valid: under one half, reported as 50.0
C27_Witness ==
    /\ quality.some
    /\ quality.val.report.totalPoints = 20001
    /\ quality.val.report.validPoints = 10000
    /\ quality.val.report.completeness = 5000
    /\ LowCompleteness \notin quality.val.issues
    /\ ManyZeros \in quality.val.issues

\* C28: the counts partition the window: totalPoints = validPoints +
\* missingPoints and validPoints = zeroPoints + nonZeroPoints, also for a
\* series with negative readings.
C28_CountsPartition ==
    quality.some =>
        LET q == quality.val.report
        IN /\ q.totalPoints = q.validPoints + q.missingPoints
           /\ q.validPoints = q.zeroPoints + q.nonZeroPoints

---------------------------------------------------------------------------
(* Properties of the held series (specification SpecEitherPath) *)

AtMostCap(s) == s.some => \A i \in 1..Len(s.val) : s.val[i].v # NaN => s.val[i].v <= MAX_POWER_CAP

C29_Witness ==
    /\ _data_cache.some
    /\ ~cacheFiles.present
    /\ _power_a_cache.some
    /\ \E i \in 1..Len(_data_cache.val.rows) :
          /\ _data_cache.val.rows[i].a = 60
          /\ _power_a_cache.val[i].v = NaN
    /\ \E i \in 1..Len(_power_a_cache.val) : _power_a_cache.val[i].v = 10

---------------------------------------------------------------------------
(* Properties of a load that fails (specification SpecRepeatedColumns) *)

\* a series a completed load would hold is missing from what a call returned
SeriesNeverComputed(r) ==
    \/ get_power_column(r.df.val.cols, "A") # 0 /\ ~r.pa.some
    \/ get_power_column(r.df.val.cols, "B") # 0 /\ ~r.pb.some

\* C30: cache population is all-or-nothing under failure: when channel
\* selection or outlier cleaning raises in a call of load_all_data the cache
\* is left unpopulated, and no later call returns a CombinedSeries with a
\* PowerSeries that is None only because its computation never completed.
C30_AllOrNothing ==
    /\ ret.outcome = "TypeError in clean_power_data" => ~_data_cache.some
    /\ (ret.outcome = "returned" /\ ret.df.some) => ~SeriesNeverComputed(ret)

====
